---- MODULE Spec2Model ----
(***************************************************************************)
(* Chronos: incremental sync, deduplication and first-solve notification   *)
(* for one Codeforces account and one LeetCode account.                    *)
(*                                                                         *)
(* The model follows chronos/main.py (startup seeding of the cursors),     *)
(* chronos/integrations/codeforces.py and leetcode.py (the two ingestion   *)
(* ticks), state_manager.py (the cursor keys) and chronos/data/database.py *)
(* (the key_value_store and solved_problems tables).                       *)
(***************************************************************************)
EXTENDS Integers, Sequences, FiniteSets, TLC

\* Longest submission history of one account that the model explores.
MaxSubs == 2

\* Callers of log_problem_solved that may be inside the function at once.
MaxCallers == 2

\* Days the store lives through.
MaxDay == 2

\* "count": 10 of the user.status request, "limit": 15 of recentAcSubmissionList.
CF_COUNT == 10
LC_LIMIT == 15

LAST_CF_SUBMISSION_ID_KEY == "last_cf_submission_id"

\* Mutant: the LeetCode cursor is kept under the key of the Codeforces cursor.
LAST_LC_TIMESTAMP_KEY_Shared == "last_cf_submission_id"

LAST_LC_TIMESTAMP_KEY == "last_lc_timestamp"

\* The problems of the two platforms: a Codeforces problem is the
\* (contestId, index) pair of the API, a LeetCode problem its titleSlug.
CfProblems == {[contestId |-> 1, index |-> "A"], [contestId |-> 1, index |-> "B"]}
LcProblems == {"two-sum", "lru-cache"}

\* Verdicts user.status reports; only "OK" is an accepted submission.
CfVerdicts == {"OK", "WRONG_ANSWER", "TESTING"}

VARIABLES
    active,     \* the platforms the account submits on in this run of the model
    phase,      \* "main" | "post_init" | "running": how far the process start got
    today,      \* datetime.now(tz).date(), as a day number
    kv,         \* key_value_store: key -> integer value; a key with no row is absent
    solved,     \* solved_problems: set of rows
    cfSubs,     \* Codeforces: the account's submissions, oldest first
    lcSubs,     \* LeetCode: the account's accepted submissions, oldest first
    cfPc,       \* position of check_codeforces_submissions: idle, log, send, save
    cfResp,     \* the user.status request of the running / last tick: none, failed, ok
    cfOutcome,  \* how the running / last tick went: none, running, fetch_failed,
                \* aborted (an exception ended it), completed
    cfData,     \* data["result"] of the tick, newest first
    cfLast,     \* last_processed_id of the tick
    cfI,        \* index of the loop's current submission in the sorted list
    cfEvents,   \* submission ids of the send attempts of the tick, in order
    lcPc,       \* position of check_leetcode_submissions: idle, log, send, save
    lcResp,     \* the recentAcSubmissionList request of the tick: none, failed, ok
    lcOutcome,  \* how the running / last tick went, as cfOutcome
    lcData,     \* recentAcSubmissionList of the tick, newest first
    lcLast,     \* last_timestamp of the tick
    lcI,        \* index of the loop's current submission in the sorted list
    lcEvents,   \* timestamps of the send attempts of the tick, in order
    sendLog,    \* the send_message attempts for new solves: one entry per attempt,
                \* numbered per (platform, problem_id)
    pre,        \* history: platform -> how many of its submissions existed when
                \* the first start of the process reached its cursor seeding
                \* (-1 until then)
    examined,   \* history: platform -> ids of the submissions log_problem_solved
                \* was called for
    calls,      \* the log_problem_solved calls in progress or returned, per caller
    targets,    \* leetcode_targets: target_type -> row; a type with no row is absent
    report,     \* the stats map computed by the last summary
    jobs        \* the summary jobs of the day: which have run, what they sent

vars == <<active, phase, today, kv, solved, cfSubs, lcSubs,
          cfPc, cfResp, cfOutcome, cfData, cfLast, cfI, cfEvents,
          lcPc, lcResp, lcOutcome, lcData, lcLast, lcI, lcEvents,
          sendLog, pre, examined, calls, targets, report, jobs>>

\* The state the ingestion jobs never touch.
aux == <<calls, targets, report, jobs>>

\* The state of the ingestion jobs, their stores and the accounts.
ingest == <<active, phase, today, kv, solved, cfSubs, lcSubs,
            cfPc, cfResp, cfOutcome, cfData, cfLast, cfI, cfEvents,
            lcPc, lcResp, lcOutcome, lcData, lcLast, lcI, lcEvents,
            sendLog, pre, examined>>

history == <<sendLog, pre, examined>>

cfLocal == <<cfPc, cfResp, cfOutcome, cfData, cfLast, cfI, cfEvents>>
lcLocal == <<lcPc, lcResp, lcOutcome, lcData, lcLast, lcI, lcEvents>>

Platforms == {"codeforces", "leetcode"}

----------------------------------------------------------------------------
(* Helpers *)

Min(a, b) == IF a <= b THEN a ELSE b

\* The largest element of a non-empty set of integers.
MaxOf(S) == CHOOSE x \in S : \A y \in S : y <= x

Range(f) == {f[i] : i \in DOMAIN f}

\* A sequence of integers in ascending order.
Ascending(s) == \A i, j \in 1..Len(s) : i < j => s[i] <= s[j]

RECURSIVE Reverse(_)
Reverse(s) == IF s = <<>> THEN <<>> ELSE Append(Reverse(Tail(s)), Head(s))

\* The first n elements of s (a request's count / limit applied to the
\* newest-first history).
Take(s, n) == SubSeq(s, 1, Min(n, Len(s)))

\* Python's sorted(xs, key=...) on a list of <<key, item>> pairs: ascending by
\* key, stable (equal keys keep the order of xs).
RECURSIVE InsertByKey(_, _)
InsertByKey(sorted, x) ==
    IF sorted = <<>> THEN <<x>>
    ELSE IF Head(sorted)[1] <= x[1]
         THEN <<Head(sorted)>> \o InsertByKey(Tail(sorted), x)
         ELSE <<x>> \o sorted

RECURSIVE SortedByKey(_)
SortedByKey(xs) ==
    IF xs = <<>> THEN <<>>
    ELSE InsertByKey(SortedByKey(SubSeq(xs, 1, Len(xs) - 1)), xs[Len(xs)])

----------------------------------------------------------------------------
(* chronos/data/database.py: the durable stores.  Every operation opens its
   own connection (get_db_connection) and runs one statement.  Its outcome:
     "ok"             the statement ran and was committed;
     "DatabaseError"  cursor.execute / commit raised psycopg2.DatabaseError,
                      which the operation itself catches;
     "ConnectError"   psycopg2.connect raised: get_db_connection logs and
                      re-raises, so the error leaves the operation.          *)

DbOutcomes == {"ok", "DatabaseError", "ConnectError"}

\* get_value(key, default): the stored value, the default when the key has no
\* row or when the SELECT fails.  (Not defined for "ConnectError": it raises.)
get_value(store, key, default, outcome) ==
    IF outcome = "ok" /\ key \in DOMAIN store THEN store[key] ELSE default

\* set_value(key, value): upsert; a failed statement is logged and rolled back.
set_value(store, key, value, outcome) ==
    IF outcome = "ok"
    THEN [k \in (DOMAIN store) \cup {key} |-> IF k = key THEN value ELSE store[k]]
    ELSE store

\* state_manager.py: int(get_value(KEY, "0")).
get_last_submission_id(store, outcome) ==
    get_value(store, LAST_CF_SUBMISSION_ID_KEY, 0, outcome)

get_last_leetcode_timestamp(store, outcome) ==
    get_value(store, LAST_LC_TIMESTAMP_KEY, 0, outcome)

save_last_submission_id(store, id, outcome) ==
    set_value(store, LAST_CF_SUBMISSION_ID_KEY, id, outcome)

save_last_leetcode_timestamp(store, ts, outcome) ==
    set_value(store, LAST_LC_TIMESTAMP_KEY, ts, outcome)

\* The persisted cursor of a platform as the pipeline reads it.
CursorKey(platform) ==
    IF platform = "codeforces" THEN LAST_CF_SUBMISSION_ID_KEY ELSE LAST_LC_TIMESTAMP_KEY

CursorOf(store, platform) == get_value(store, CursorKey(platform), 0, "ok")

Cursor(platform) == CursorOf(kv, platform)

\* A solved_problems row; (platform, problem_id) is the primary key.
Row(platform, problem_id, date, rating) ==
    [platform |-> platform, problem_id |-> problem_id,
     first_solve_date |-> date, rating |-> rating]

HasRow(rows, platform, problem_id) ==
    \E r \in rows : r.platform = platform /\ r.problem_id = problem_id

\* Mutant: ON CONFLICT ... DO UPDATE, the row of the key is overwritten.
log_problem_solved_rows_Upsert(rows, platform, problem_id, date, rating, outcome) ==
    IF outcome = "ok"
    THEN {r \in rows : ~(r.platform = platform /\ r.problem_id = problem_id)}
             \cup {Row(platform, problem_id, date, rating)}
    ELSE rows

\* Mutant: the transaction is never committed, so the row is lost.
log_problem_solved_rows_NoCommit(rows, platform, problem_id, date, rating, outcome) ==
    rows

\* log_problem_solved: INSERT ... ON CONFLICT (platform, problem_id) DO NOTHING.
\* The table afterwards:
log_problem_solved_rows(rows, platform, problem_id, date, rating, outcome) ==
    IF outcome = "ok" /\ ~HasRow(rows, platform, problem_id)
    THEN rows \cup {Row(platform, problem_id, date, rating)}
    ELSE rows

\* Mutant: the rowcount is not looked at, every successful statement counts
\* as a new solve.
log_problem_solved_AlwaysNew(rows, platform, problem_id, outcome) ==
    outcome = "ok"

\* and its return value: cursor.rowcount > 0, False when the statement failed.
log_problem_solved(rows, platform, problem_id, outcome) ==
    outcome = "ok" /\ ~HasRow(rows, platform, problem_id)

----------------------------------------------------------------------------
(* The Notifier: context.bot.send_message for a new unique solve. *)

Attempts(log, platform, problem_id) ==
    {e \in log : e.platform = platform /\ e.problem_id = problem_id}

\* One more attempt for (platform, problem_id), delivered or not.
Attempt(log, platform, problem_id, delivered) ==
    log \cup {[platform |-> platform, problem_id |-> problem_id,
               n |-> Cardinality(Attempts(log, platform, problem_id)) + 1,
               delivered |-> delivered]}

----------------------------------------------------------------------------
(* The Codeforces account (the upstream the adapter polls). *)

\* Submission ids grow with submission order; creationTimeSeconds has a
\* resolution of one second, so two consecutive submissions may share it.
CfSubmit ==
    /\ "codeforces" \in active
    /\ Len(cfSubs) < MaxSubs
    /\ \E problem \in CfProblems, verdict \in CfVerdicts, dt \in {0, 1} :
         cfSubs' = Append(cfSubs,
             [id |-> Len(cfSubs) + 1,
              creationTimeSeconds |->
                  IF cfSubs = <<>> THEN 1
                  ELSE cfSubs[Len(cfSubs)].creationTimeSeconds + dt,
              verdict |-> verdict,
              problem |-> problem])
    /\ UNCHANGED <<aux, active, phase, today, kv, solved, lcSubs, cfLocal, lcLocal, history>>

\* The judge finishes a submission that was still being tested.
CfJudge ==
    /\ \E i \in 1..Len(cfSubs), verdict \in {"OK", "WRONG_ANSWER"} :
         /\ cfSubs[i].verdict = "TESTING"
         /\ cfSubs' = [cfSubs EXCEPT ![i].verdict = verdict]
    /\ UNCHANGED <<aux, active, phase, today, kv, solved, lcSubs, cfLocal, lcLocal, history>>

\* user.status?from=1&count=n: the n most recent submissions, newest first.
CfUserStatus(n) == Take(Reverse(cfSubs), n)

----------------------------------------------------------------------------
(* chronos/integrations/codeforces.py: check_codeforces_submissions *)

\* What the request of a tick can come to: a transport error or timeout
\* (httpx.RequestError), an HTTP error status (raise_for_status), a response
\* whose status is FAILED, a response whose status is OK.
CfResponses == {"RequestError", "HTTPStatusError", "FAILED", "OK"}

\* The request raises: nothing after it runs (lines 69-72, 124-129).
CfRaises(resp) == resp \in {"RequestError", "HTTPStatusError"}

\* Mutant: the status of the response is not looked at.
CfStatusOk_Dropped(resp) == TRUE

\* if data["status"] == "OK" (line 74).
CfStatusOk(resp) == resp = "OK"

\* Mutant: the verdict is not looked at.
CfNewSuccessful_AnyVerdict(data, last) ==
    SelectSeq(data, LAMBDA x : x.id > last)

\* Lines 76-80: the submissions of data["result"] with id > last_processed_id
\* and verdict OK, in the order of the response.
CfNewSuccessful(data, last) ==
    SelectSeq(data, LAMBDA s : s.id > last /\ s.verdict = "OK")

\* Line 84: sorted(new_successful_submissions, key=creationTimeSeconds).
CfKeyed(xs) == [i \in 1..Len(xs) |-> <<xs[i].creationTimeSeconds, xs[i]>>]

CfSorted(data, last) ==
    LET s == SortedByKey(CfKeyed(CfNewSuccessful(data, last)))
    IN  [i \in 1..Len(s) |-> s[i][2]]

\* Line 86: problem_id = f"{contestId}-{index}"; the pair stands for the text.
CfProblemId(problem) == <<problem.contestId, problem.index>>

\* Line 87 and database.py line 91: str(problem.get('rating', 'NA')).
CfRating(problem) == IF problem.index = "A" THEN "800" ELSE "NA"

CfCurrent == CfSorted(cfData, cfLast)[cfI]

\* Mutant: no except clause; an error leaves the callback and the job is not
\* idle again.
CfEnd_Propagates(outcome) ==
    /\ cfPc' = IF outcome \in {"fetch_failed", "aborted"} THEN "raised" ELSE "idle"
    /\ cfOutcome' = outcome
    /\ cfData' = <<>>
    /\ cfLast' = 0
    /\ cfI' = 1
    /\ cfEvents' = <<>>

\* The tick ends: the job is idle until its next run.
CfEnd(outcome) ==
    /\ cfPc' = "idle"
    /\ cfOutcome' = outcome
    /\ cfData' = <<>>
    /\ cfLast' = 0
    /\ cfI' = 1
    /\ cfEvents' = <<>>

\* Lines 56-80: the request, the cursor read, the filter.
CfFetch ==
    /\ phase = "running"
    /\ "codeforces" \in active
    /\ cfPc = "idle"
    /\ \E resp \in CfResponses, db \in DbOutcomes :
         /\ cfResp' = IF resp = "OK" THEN "ok" ELSE "failed"
         /\ IF CfRaises(resp) \/ ~(CfStatusOk(resp))
            THEN CfEnd("fetch_failed")
            ELSE IF db = "ConnectError"
            THEN CfEnd("aborted")
            ELSE LET data == CfUserStatus(CF_COUNT)
                     last == get_last_submission_id(kv, db)
                 IN  IF CfNewSuccessful(data, last) = <<>>
                     THEN CfEnd("completed")
                     ELSE /\ cfPc' = "log"
                          /\ cfOutcome' = "running"
                          /\ cfData' = data
                          /\ cfLast' = last
                          /\ cfI' = 1
                          /\ cfEvents' = <<>>
    /\ UNCHANGED <<aux, active, phase, today, kv, solved, cfSubs, lcSubs, lcLocal, history>>

\* Lines 85-96: log_problem_solved for the current submission.
CfLogStep ==
    /\ cfPc = "log"
    /\ \E db \in DbOutcomes :
         LET sub == CfCurrent
             pid == CfProblemId(sub.problem)
         IN  IF db = "ConnectError"
             THEN /\ CfEnd("aborted")
                  /\ solved' = solved
             ELSE /\ solved' = log_problem_solved_rows(solved, "codeforces", pid,
                                   today, CfRating(sub.problem), db)
                  /\ cfPc' = IF log_problem_solved(solved, "codeforces", pid, db)
                             THEN "send" ELSE "save"
                  /\ UNCHANGED <<cfOutcome, cfData, cfLast, cfI, cfEvents>>
    /\ UNCHANGED <<aux, active, phase, today, kv, cfSubs, lcSubs, cfResp, lcLocal, sendLog>>

CfLog == CfLogStep /\ UNCHANGED <<pre, examined>>

\* The same step, recorded in the history: the call was made unless the
\* connection could not be opened.
CfLogH ==
    /\ CfLogStep
    /\ examined' = IF cfPc' # "idle"
                   THEN [examined EXCEPT !["codeforces"] = @ \cup {CfCurrent.id}]
                   ELSE examined
    /\ pre' = pre

\* Mutant: a raise of send_message is swallowed and the loop goes on.
CfSend_Swallows ==
    /\ cfPc = "send"
    /\ \E delivered \in BOOLEAN :
         /\ sendLog' = Attempt(sendLog, "codeforces", CfProblemId(CfCurrent.problem),
                                delivered)
         /\ cfPc' = "save"
         /\ cfEvents' = IF delivered THEN Append(cfEvents, CfCurrent.id) ELSE cfEvents
         /\ UNCHANGED <<cfOutcome, cfData, cfLast, cfI>>
    /\ UNCHANGED <<aux, active, phase, today, kv, solved, cfSubs, lcSubs, cfResp, lcLocal,
                   pre, examined>>

\* Lines 97-116: the notification of a new unique solve.  send_message either
\* delivers or raises; a raise ends the tick in the except clause of line 130.
CfSend ==
    /\ cfPc = "send"
    /\ \E delivered \in BOOLEAN :
         /\ sendLog' = Attempt(sendLog, "codeforces", CfProblemId(CfCurrent.problem),
                                delivered)
         /\ IF delivered
            THEN /\ cfPc' = "save"
                 /\ cfEvents' = Append(cfEvents, CfCurrent.id)
                 /\ UNCHANGED <<cfOutcome, cfData, cfLast, cfI>>
            ELSE CfEnd("aborted")
    /\ UNCHANGED <<aux, active, phase, today, kv, solved, cfSubs, lcSubs, cfResp, lcLocal,
                   pre, examined>>

\* Line 121: save_last_submission_id(submission["id"]), then the next
\* submission of the loop.
CfSave ==
    /\ cfPc = "save"
    /\ \E db \in DbOutcomes :
         IF db = "ConnectError"
         THEN /\ CfEnd("aborted")
              /\ kv' = kv
         ELSE /\ kv' = save_last_submission_id(kv, CfCurrent.id, db)
              /\ IF cfI = Len(CfSorted(cfData, cfLast))
                 THEN CfEnd("completed")
                 ELSE /\ cfPc' = "log"
                      /\ cfI' = cfI + 1
                      /\ UNCHANGED <<cfOutcome, cfData, cfLast, cfEvents>>
    /\ UNCHANGED <<aux, active, phase, today, solved, cfSubs, lcSubs, cfResp, lcLocal, history>>

----------------------------------------------------------------------------
(* The LeetCode account. *)

\* recentAcSubmissionList holds accepted submissions only; timestamp is in
\* whole seconds, so two consecutive submissions may share it.
LcSubmit ==
    /\ "leetcode" \in active
    /\ Len(lcSubs) < MaxSubs
    /\ \E slug \in LcProblems, dt \in {0, 1} :
         lcSubs' = Append(lcSubs,
             [id |-> Len(lcSubs) + 1,
              timestamp |-> IF lcSubs = <<>> THEN 1
                            ELSE lcSubs[Len(lcSubs)].timestamp + dt,
              titleSlug |-> slug])
    /\ UNCHANGED <<aux, active, phase, today, kv, solved, cfSubs, cfLocal, lcLocal, history>>

\* recentAcSubmissionList(username, limit): newest first.
LcRecentAcSubmissionList(n) == Take(Reverse(lcSubs), n)

----------------------------------------------------------------------------
(* leetcode.py: check_leetcode_submissions *)

\* The request of a tick: a transport error (httpx.RequestError), an HTTP error
\* status (raise_for_status), a GraphQL response that carries "errors", a
\* response without errors.
LcResponses == {"RequestError", "HTTPStatusError", "errors", "OK"}

LcRaises(resp) == resp \in {"RequestError", "HTTPStatusError"}

\* if "errors" in data: return (lines 208-210).
LcHasErrors(resp) == resp = "errors"

\* Lines 213-218: the submissions with int(timestamp) > last_timestamp.
LcNewSubmissions(data, last) ==
    SelectSeq(data, LAMBDA s : s.timestamp > last)

\* Line 221: sorted(new_submissions, key=int(timestamp)).
LcKeyed(xs) == [i \in 1..Len(xs) |-> <<xs[i].timestamp, xs[i]>>]

LcSorted(data, last) ==
    LET s == SortedByKey(LcKeyed(LcNewSubmissions(data, last)))
    IN  [i \in 1..Len(s) |-> s[i][2]]

\* get_leetcode_problem_difficulty: the difficulty of the question, None when
\* the request fails with a RequestError or the response carries errors; an
\* HTTP error status is not caught there and raises.
LcDifficultyOutcomes == {"value", "None", "HTTPStatusError"}

LcDifficulty(slug, outcome) ==
    IF outcome = "value"
    THEN (IF slug = "two-sum" THEN "Easy" ELSE "Medium")
    ELSE "None"

LcCurrent == LcSorted(lcData, lcLast)[lcI]

LcEnd(outcome) ==
    /\ lcPc' = "idle"
    /\ lcOutcome' = outcome
    /\ lcData' = <<>>
    /\ lcLast' = 0
    /\ lcI' = 1
    /\ lcEvents' = <<>>

\* Lines 202-218: the request, the cursor read, the filter.
LcFetch ==
    /\ phase = "running"
    /\ "leetcode" \in active
    /\ lcPc = "idle"
    /\ \E resp \in LcResponses, db \in DbOutcomes :
         /\ lcResp' = IF resp = "OK" THEN "ok" ELSE "failed"
         /\ IF LcRaises(resp) \/ LcHasErrors(resp)
            THEN LcEnd("fetch_failed")
            ELSE IF db = "ConnectError"
            THEN LcEnd("aborted")
            ELSE LET data == LcRecentAcSubmissionList(LC_LIMIT)
                     last == get_last_leetcode_timestamp(kv, db)
                 IN  IF LcNewSubmissions(data, last) = <<>>
                     THEN LcEnd("completed")
                     ELSE /\ lcPc' = "log"
                          /\ lcOutcome' = "running"
                          /\ lcData' = data
                          /\ lcLast' = last
                          /\ lcI' = 1
                          /\ lcEvents' = <<>>
    /\ UNCHANGED <<aux, active, phase, today, kv, solved, cfSubs, lcSubs, cfLocal, history>>

\* Mutant: a lookup without a value ends the tick like a lookup that raises.
LcLogStep_AbortsOnNone ==
    /\ lcPc = "log"
    /\ \E diff \in LcDifficultyOutcomes, db \in DbOutcomes :
         LET sub == LcCurrent
         IN  IF diff # "value" \/ db = "ConnectError"
             THEN /\ LcEnd("aborted")
                  /\ solved' = solved
             ELSE /\ solved' = log_problem_solved_rows(solved, "leetcode", sub.titleSlug,
                                   today, LcDifficulty(sub.titleSlug, diff), db)
                  /\ lcPc' = IF log_problem_solved(solved, "leetcode", sub.titleSlug, db)
                             THEN "send" ELSE "save"
                  /\ UNCHANGED <<lcOutcome, lcData, lcLast, lcI, lcEvents>>
    /\ UNCHANGED <<aux, active, phase, today, kv, cfSubs, lcSubs, lcResp, cfLocal, sendLog>>

\* Lines 222-231: the difficulty lookup, then log_problem_solved.
LcLogStep ==
    /\ lcPc = "log"
    /\ \E diff \in LcDifficultyOutcomes, db \in DbOutcomes :
         LET sub == LcCurrent
         IN  IF diff = "HTTPStatusError" \/ db = "ConnectError"
             THEN /\ LcEnd("aborted")
                  /\ solved' = solved
             ELSE /\ solved' = log_problem_solved_rows(solved, "leetcode", sub.titleSlug,
                                   today, LcDifficulty(sub.titleSlug, diff), db)
                  /\ lcPc' = IF log_problem_solved(solved, "leetcode", sub.titleSlug, db)
                             THEN "send" ELSE "save"
                  /\ UNCHANGED <<lcOutcome, lcData, lcLast, lcI, lcEvents>>
    /\ UNCHANGED <<aux, active, phase, today, kv, cfSubs, lcSubs, lcResp, cfLocal, sendLog>>

LcLog == LcLogStep /\ UNCHANGED <<pre, examined>>

LcLogH ==
    /\ LcLogStep
    /\ examined' = IF lcPc' # "idle"
                   THEN [examined EXCEPT !["leetcode"] = @ \cup {LcCurrent.id}]
                   ELSE examined
    /\ pre' = pre

\* Lines 232-268: the submission details are fetched (an HTTP error status
\* there raises before anything is sent), then the notification is sent.
LcSendOutcomes == {"details_raise", "delivered", "send_raise"}

LcSend ==
    /\ lcPc = "send"
    /\ \E out \in LcSendOutcomes :
         IF out = "details_raise"
         THEN /\ LcEnd("aborted")
              /\ sendLog' = sendLog
         ELSE /\ sendLog' = Attempt(sendLog, "leetcode", LcCurrent.titleSlug,
                                     out = "delivered")
              /\ IF out = "delivered"
                 THEN /\ lcPc' = "save"
                      /\ lcEvents' = Append(lcEvents, LcCurrent.timestamp)
                      /\ UNCHANGED <<lcOutcome, lcData, lcLast, lcI>>
                 ELSE LcEnd("aborted")
    /\ UNCHANGED <<aux, active, phase, today, kv, solved, cfSubs, lcSubs, lcResp, cfLocal,
                   pre, examined>>

\* Line 273: save_last_leetcode_timestamp(int(sub["timestamp"])).
LcSave ==
    /\ lcPc = "save"
    /\ \E db \in DbOutcomes :
         IF db = "ConnectError"
         THEN /\ LcEnd("aborted")
              /\ kv' = kv
         ELSE /\ kv' = save_last_leetcode_timestamp(kv, LcCurrent.timestamp, db)
              /\ IF lcI = Len(LcSorted(lcData, lcLast))
                 THEN LcEnd("completed")
                 ELSE /\ lcPc' = "log"
                      /\ lcI' = lcI + 1
                      /\ UNCHANGED <<lcOutcome, lcData, lcLast, lcEvents>>
    /\ UNCHANGED <<aux, active, phase, today, solved, cfSubs, lcSubs, lcResp, cfLocal, history>>

----------------------------------------------------------------------------
(* chronos/main.py: process start *)

\* get_latest_submission_id (codeforces.py lines 23-51): the id of the newest
\* submission, 0 when the account has none and 0 when the request fails.
get_latest_submission_id(requestOk) ==
    IF requestOk /\ cfSubs # <<>> THEN cfSubs[Len(cfSubs)].id ELSE 0

\* get_latest_leetcode_submission_timestamp (leetcode.py lines 28-57).
get_latest_leetcode_submission_timestamp(requestOk) ==
    IF requestOk /\ lcSubs # <<>> THEN lcSubs[Len(lcSubs)].timestamp ELSE 0

\* main(), lines 185-193: the Codeforces cursor is seeded when it reads 0.
\* An error that leaves a store operation ends the process before it runs.
MainSeedCfStep ==
    /\ phase = "main"
    /\ \E dbRead \in {"ok", "DatabaseError"}, requestOk \in BOOLEAN, dbWrite \in DbOutcomes :
         LET latest_id == get_latest_submission_id(requestOk)
         IN  IF get_last_submission_id(kv, dbRead) = 0 /\ latest_id # 0
             THEN IF dbWrite = "ConnectError"
                  THEN UNCHANGED <<kv, phase>>
                  ELSE /\ kv' = save_last_submission_id(kv, latest_id, dbWrite)
                       /\ phase' = "post_init"
             ELSE /\ kv' = kv
                  /\ phase' = "post_init"
    /\ UNCHANGED <<aux, active, today, solved, cfSubs, lcSubs, cfLocal, lcLocal, sendLog>>

MainSeedCf == MainSeedCfStep /\ UNCHANGED <<pre, examined>>

\* The same step, recorded in the history: the first start of the process
\* fixes which submissions existed before the first run.
MainSeedCfH ==
    /\ MainSeedCfStep
    /\ pre' = IF pre["codeforces"] = -1 /\ phase' = "post_init"
              THEN [pre EXCEPT !["codeforces"] = Len(cfSubs)]
              ELSE pre
    /\ examined' = examined

\* post_initialization, lines 79-87: the LeetCode cursor is seeded when it
\* reads 0; then run_polling starts the job queue.
PostInitSeedLcStep ==
    /\ phase = "post_init"
    /\ \E dbRead \in DbOutcomes, request \in {"ok", "failed", "HTTPStatusError"},
          dbWrite \in DbOutcomes :
         LET latest_ts == get_latest_leetcode_submission_timestamp(request = "ok")
         IN  IF dbRead = "ConnectError"
             THEN phase' = "main" /\ kv' = kv
             ELSE IF get_last_leetcode_timestamp(kv, dbRead) # 0
             THEN phase' = "running" /\ kv' = kv
             ELSE IF request = "HTTPStatusError" \/ (latest_ts # 0 /\ dbWrite = "ConnectError")
             THEN phase' = "main" /\ kv' = kv
             ELSE /\ kv' = IF latest_ts # 0
                           THEN save_last_leetcode_timestamp(kv, latest_ts, dbWrite)
                           ELSE kv
                  /\ phase' = "running"
    /\ UNCHANGED <<aux, active, today, solved, cfSubs, lcSubs, cfLocal, lcLocal, sendLog>>

PostInitSeedLc == PostInitSeedLcStep /\ UNCHANGED <<pre, examined>>

PostInitSeedLcH ==
    /\ PostInitSeedLcStep
    /\ pre' = IF pre["leetcode"] = -1 /\ phase' = "running"
              THEN [pre EXCEPT !["leetcode"] = Len(lcSubs)]
              ELSE pre
    /\ examined' = examined

\* The process stops (a crash, a kill, a deploy) and is started again: the
\* jobs' local state is lost, the stores and the accounts are not.
Restart ==
    /\ phase # "main"
    /\ phase' = "main"
    /\ cfResp' = "none" /\ CfEnd("none")
    /\ lcResp' = "none" /\ LcEnd("none")
    /\ UNCHANGED <<aux, active, today, kv, solved, cfSubs, lcSubs, history>>

----------------------------------------------------------------------------

\* No call in progress, no target set, no summary computed, no job running.
AuxInit ==
    /\ calls = <<>>
    /\ targets = <<>>
    /\ report = <<>>
    /\ jobs = <<>>

Init ==
    /\ active \in {{"codeforces"}, {"leetcode"}}
    /\ phase = "main"
    /\ today = 1
    /\ kv = [k \in {} |-> 0]
    /\ solved = {}
    /\ cfSubs = <<>>
    /\ lcSubs = <<>>
    /\ cfPc = "idle" /\ cfResp = "none" /\ cfOutcome = "none"
    /\ cfData = <<>> /\ cfLast = 0 /\ cfI = 1 /\ cfEvents = <<>>
    /\ lcPc = "idle" /\ lcResp = "none" /\ lcOutcome = "none"
    /\ lcData = <<>> /\ lcLast = 0 /\ lcI = 1 /\ lcEvents = <<>>
    /\ sendLog = {}
    /\ pre = [codeforces |-> -1, leetcode |-> -1]
    /\ examined = [codeforces |-> {}, leetcode |-> {}]
    /\ AuxInit

Next ==
    \/ MainSeedCf
    \/ PostInitSeedLc
    \/ Restart
    \/ CfSubmit
    \/ CfJudge
    \/ CfFetch
    \/ CfLog
    \/ CfSend
    \/ CfSave
    \/ LcSubmit
    \/ LcFetch
    \/ LcLog
    \/ LcSend
    \/ LcSave

Spec == Init /\ [][Next]_vars

\* The same program with the history variables pre and examined recorded.
NextH ==
    \/ MainSeedCfH
    \/ PostInitSeedLcH
    \/ Restart
    \/ CfSubmit
    \/ CfJudge
    \/ CfFetch
    \/ CfLogH
    \/ CfSend
    \/ CfSave
    \/ LcSubmit
    \/ LcFetch
    \/ LcLogH
    \/ LcSend
    \/ LcSave

SpecH == Init /\ [][NextH]_vars

----------------------------------------------------------------------------
(* One Codeforces tick on a given window, every request, store operation and
   delivery succeeding *)

\* The window of three submissions: ids 101, 103, 105, oldest first; the first
\* and the last accepted, of different problems, in different seconds; the
\* middle one not accepted.
ScnWindows ==
    { << [id |-> 101, creationTimeSeconds |-> 1, verdict |-> "OK", problem |-> p1],
         [id |-> 103, creationTimeSeconds |-> t3, verdict |-> v, problem |-> p3],
         [id |-> 105, creationTimeSeconds |-> t5, verdict |-> "OK", problem |-> p2] >> :
        <<p1, p2, p3, v, t3, t5>> \in
            { x \in CfProblems \X CfProblems \X CfProblems
                    \X (CfVerdicts \ {"OK"}) \X {1, 2} \X {2, 3} :
                  x[1] # x[2] /\ x[5] <= x[6] } }

\* The process is running with cursor 100 and the first problem of the
\* window already in solved_problems.
ScnInit ==
    /\ active = {"codeforces"}
    /\ phase = "running"
    /\ today = 1
    /\ kv = [k \in {LAST_CF_SUBMISSION_ID_KEY} |-> 100]
    /\ cfSubs \in ScnWindows
    /\ \E date \in {0, 1} :
         solved = {Row("codeforces", CfProblemId(cfSubs[1].problem), date,
                       CfRating(cfSubs[1].problem))}
    /\ lcSubs = <<>>
    /\ cfPc = "idle" /\ cfResp = "none" /\ cfOutcome = "none"
    /\ cfData = <<>> /\ cfLast = 0 /\ cfI = 1 /\ cfEvents = <<>>
    /\ lcPc = "idle" /\ lcResp = "none" /\ lcOutcome = "none"
    /\ lcData = <<>> /\ lcLast = 0 /\ lcI = 1 /\ lcEvents = <<>>
    /\ sendLog = {}
    /\ pre = [codeforces |-> -1, leetcode |-> -1]
    /\ examined = [codeforces |-> {}, leetcode |-> {}]
    /\ AuxInit

\* The steps of the tick in which nothing fails: the request returns status
\* OK and the cursor is read, ...
ScnFetch ==
    /\ CfFetch
    /\ cfResp' = "ok"
    /\ cfOutcome' # "aborted"
    /\ cfPc' = "log" => cfLast' = get_last_submission_id(kv, "ok")

\* ... the INSERT statement runs, ...
ScnLog ==
    /\ CfLog
    /\ cfPc' # "idle"
    /\ solved' = log_problem_solved_rows(solved, "codeforces",
                     CfProblemId(CfCurrent.problem), today,
                     CfRating(CfCurrent.problem), "ok")
    /\ cfPc' = "send" <=> log_problem_solved(solved, "codeforces",
                              CfProblemId(CfCurrent.problem), "ok")

\* ... the message is delivered, ...
ScnSend ==
    /\ CfSend
    /\ cfPc' = "save"

\* ... and the cursor is written.
ScnSave ==
    /\ CfSave
    /\ cfOutcome' # "aborted"
    /\ kv' = save_last_submission_id(kv, CfCurrent.id, "ok")

ScnNext ==
    \/ ScnFetch
    \/ ScnLog
    \/ ScnSend
    \/ ScnSave

SpecScn == ScnInit /\ [][ScnNext]_vars

----------------------------------------------------------------------------
(* The stores under any callers: chronos/data/database.py and
   chronos/data/database_orm.py *)

Callers == 1..MaxCallers

\* The keys the callers log: one problem of each platform.
DedupKeys == {<<"codeforces", <<1, "A">> >>, <<"leetcode", "two-sum">>}

\* str(rating) as the callers pass it: a later submission of a problem may
\* carry another rating than the first (Codeforces rates a problem after the
\* contest; a LeetCode difficulty lookup may fail and give str(None)).
RatingsOf(platform) ==
    IF platform = "codeforces" THEN {"NA", "800"} ELSE {"None", "Easy"}

\* stats as the three get_*_stats_from_db functions build it from the
\* selected rows: platform -> rating -> count, only for what occurs.
StatsOf(sel) ==
    [p \in {r.platform : r \in sel} |->
        [rt \in {r.rating : r \in {x \in sel : x.platform = p}} |->
            Cardinality({r \in sel : r.platform = p /\ r.rating = rt})]]

\* get_daily_stats_from_db (lines 104-130): WHERE first_solve_date = today;
\* an error of the statement is logged and the empty map returned.
get_daily_stats_from_db(rows, day, outcome) ==
    IF outcome = "ok" THEN StatsOf({r \in rows : r.first_solve_date = day}) ELSE <<>>

\* database_orm.py lines 59-67: the existence check of the ORM version.
orm_existing(rows, platform, problem_id) == HasRow(rows, platform, problem_id)

\* Mutant: the table has no primary key, the second INSERT goes through.
orm_commit_conflicts_NoPrimaryKey(rows, platform, problem_id) == FALSE

\* models.py lines 15-16, database_orm.py lines 77-78: platform and problem_id
\* are the primary key, so session.commit() of a second row for the key
\* raises IntegrityError.
orm_commit_conflicts(rows, platform, problem_id) == HasRow(rows, platform, problem_id)

\* calls.run[c] is <<>> while caller c is outside the function and
\* <<key, solve_date, rating>> between its lookup and its commit.
\* The rows of key k.
RowsOf(k) == {r \in solved : r.platform = k[1] /\ r.problem_id = k[2]}

\* The call carries another date or rating than the row of its key.
Differs(k, date, rating) ==
    \E r \in RowsOf(k) : r.first_solve_date # date \/ r.rating # rating

\* One more call for key k returned: what it returned, whether it ran into a
\* store error, and whether it was a call for a recorded problem with another
\* date or rating than the recorded one.
Returned(k, result, clean, differs) ==
    [calls EXCEPT !.trues[k] = @ + (IF result THEN 1 ELSE 0),
                  !.clean[k] = @ \/ clean,
                  !.dup[k] = @ \/ (clean /\ ~result /\ differs)]

storeFrame == <<active, phase, kv, cfSubs, lcSubs, cfLocal, lcLocal, history, jobs>>

\* database.py log_problem_solved (lines 76-102): one INSERT ... ON CONFLICT
\* DO NOTHING statement, atomic in the database.
SqlCall(c) ==
    /\ calls.impl = "sql"
    /\ \E k \in DedupKeys, db \in DbOutcomes :
       \E rating \in RatingsOf(k[1]) :
         /\ solved' = IF db = "ConnectError" THEN solved
                      ELSE log_problem_solved_rows(solved, k[1], k[2], today, rating, db)
         /\ calls' = IF db = "ConnectError" THEN calls
                     ELSE Returned(k, log_problem_solved(solved, k[1], k[2], db), db = "ok",
                                   Differs(k, today, rating))
    /\ UNCHANGED <<today, targets, report, storeFrame>>

\* database_orm.py lines 55-67: solve_date is taken, the session opened and
\* the existing row looked up; a row found returns False, an SQLAlchemyError
\* returns False (lines 83-85).
OrmQuery(c) ==
    /\ calls.impl = "orm"
    /\ calls.run[c] = <<>>
    /\ \E k \in DedupKeys, ok \in BOOLEAN :
       \E rating \in RatingsOf(k[1]) :
         calls' = IF ~ok THEN Returned(k, FALSE, FALSE, FALSE)
                  ELSE IF orm_existing(solved, k[1], k[2])
                  THEN Returned(k, FALSE, TRUE, Differs(k, today, rating))
                  ELSE [calls EXCEPT !.run[c] = <<k, today, rating>>]
    /\ UNCHANGED <<today, solved, targets, report, storeFrame>>

\* database_orm.py lines 69-85 and get_session, lines 27-39: session.add and
\* session.commit.  A commit that goes through returns True.  A commit that
\* fails (the IntegrityError of a duplicate key among the SQLAlchemyErrors) is
\* caught and `return False` leaves the with block, but the session has not
\* been rolled back: the session.commit() of get_session (line 33) is refused,
\* its except clause rolls back and raises again (34-37).  The call raises
\* and returns nothing, so no return is recorded for it; the table is
\* unchanged.
OrmCommit(c) ==
    /\ calls.impl = "orm"
    /\ calls.run[c] # <<>>
    /\ LET call == calls.run[c]
           k == call[1]
           back == [calls EXCEPT !.run[c] = <<>>]
       IN  \E ok \in BOOLEAN :
             IF ok /\ ~orm_commit_conflicts(solved, k[1], k[2])
             THEN /\ solved' = solved \cup {Row(k[1], k[2], call[2], call[3])}
                  /\ calls' = [back EXCEPT !.trues[k] = @ + 1, !.clean[k] = TRUE]
             ELSE /\ solved' = solved
                  /\ calls' = back
    /\ UNCHANGED <<today, targets, report, storeFrame>>

\* Midnight in the account's timezone.
DayPasses ==
    /\ today < MaxDay
    /\ today' = today + 1
    /\ UNCHANGED <<solved, calls, targets, report, storeFrame>>

\* Mutant: the statement replaces the table by the one row it writes.
set_leetcode_target_ReplacesAll(rows, target_type, easy, medium, hard, outcome) ==
    IF outcome = "ok"
    THEN [t \in {target_type} |-> [easy |-> easy, medium |-> medium, hard |-> hard]]
    ELSE rows

\* set_leetcode_target (lines 223-250): one upsert of the row of the type;
\* an error of the statement is rolled back and False returned.
set_leetcode_target(rows, target_type, easy, medium, hard, outcome) ==
    IF outcome = "ok"
    THEN [t \in DOMAIN rows \cup {target_type} |->
             IF t = target_type THEN [easy |-> easy, medium |-> medium, hard |-> hard]
             ELSE rows[t]]
    ELSE rows

SetTarget ==
    /\ \E target_type \in {"daily"}, easy \in {1}, db \in {"ok", "DatabaseError"} :
         targets' = set_leetcode_target(targets, target_type, easy, 0, 0, db)
    /\ UNCHANGED <<today, solved, calls, report, storeFrame>>

\* The daily summary job reads the table.
DailyStats ==
    /\ \E db \in {"ok", "DatabaseError"} :
         report' = get_daily_stats_from_db(solved, today, db)
    /\ UNCHANGED <<today, solved, calls, targets, storeFrame>>

\* The process is up on empty stores, no account is submitting and no
\* checker job is inside a tick.
IngestIdle ==
    /\ active = {} /\ phase = "running" /\ today = 1
    /\ kv = <<>> /\ solved = {}
    /\ cfSubs = <<>> /\ lcSubs = <<>>
    /\ cfPc = "idle" /\ cfResp = "none" /\ cfOutcome = "none"
    /\ cfData = <<>> /\ cfLast = 0 /\ cfI = 1 /\ cfEvents = <<>>
    /\ lcPc = "idle" /\ lcResp = "none" /\ lcOutcome = "none"
    /\ lcData = <<>> /\ lcLast = 0 /\ lcI = 1 /\ lcEvents = <<>>
    /\ sendLog = {}
    /\ pre = [codeforces |-> -1, leetcode |-> -1]
    /\ examined = [codeforces |-> {}, leetcode |-> {}]

StoreInit ==
    /\ IngestIdle
    /\ \E impl \in {"sql", "orm"} :
         calls = [impl |-> impl,
                  run |-> [c \in Callers |-> <<>>],
                  trues |-> [k \in DedupKeys |-> 0],
                  clean |-> [k \in DedupKeys |-> FALSE],
                  dup |-> [k \in DedupKeys |-> FALSE]]
    /\ targets = <<>>
    /\ report = <<>>
    /\ jobs = <<>>

StoreNext ==
    \/ \E c \in Callers : SqlCall(c)
    \/ \E c \in Callers : OrmQuery(c)
    \/ \E c \in Callers : OrmCommit(c)
    \/ DayPasses
    \/ SetTarget
    \/ DailyStats

SpecStore == StoreInit /\ [][StoreNext]_vars

----------------------------------------------------------------------------
(* The summaries: the three get_*_stats_from_db functions of
   chronos/data/database.py and _format_summary_message of
   chronos/bot/handlers.py *)

\* Most rows of a solved_problems table the summaries are computed on.
MaxRows == 2

\* The calendar: day 1 is Monday 26 February 2024, day 4 Thursday 29 February,
\* day 5 Friday 1 March, day 8 Monday 4 March.
StatsDays == {1, 4, 5, 8}

\* date.weekday(): Monday is 0, Sunday is 6.
Weekday(d) == (d - 1) % 7

\* The day of the month of day d.
DayOfMonth(d) == IF d >= 5 THEN d - 4 ELSE d + 25

\* database.py lines 165-166: current_date - timedelta(days=weekday()).
start_of_week(d) == d - Weekday(d)

\* database.py line 135: current_date.replace(day=1).
first_day_of_month(d) == d - (DayOfMonth(d) - 1)

\* get_weekly_stats_from_db (lines 161-190): WHERE first_solve_date >= the
\* Monday of the week; an error of the statement gives the empty map.
get_weekly_stats_from_db(rows, day, outcome) ==
    IF outcome = "ok"
    THEN StatsOf({r \in rows : r.first_solve_date >= start_of_week(day)})
    ELSE <<>>

\* get_monthly_stats_from_db (lines 132-159): WHERE first_solve_date >= the
\* first day of the month; an error of the statement gives the empty map.
get_monthly_stats_from_db(rows, day, outcome) ==
    IF outcome = "ok"
    THEN StatsOf({r \in rows : r.first_solve_date >= first_day_of_month(day)})
    ELSE <<>>

\* The rating texts a row can carry: str() of a Codeforces rating or 'NA',
\* a LeetCode difficulty or str(None).
CfRatingTexts == {"700", "1000", "1100", "1600", "1700", "NA"}
LcRatingTexts == {"Easy", "Medium", "Hard", "None"}

\* int(rating_str) for the texts str.isdigit() accepts.
IntOfText ==
    ("0" :> 0) @@ ("700" :> 700) @@ ("799" :> 799) @@ ("800" :> 800) @@
    ("1000" :> 1000) @@ ("1001" :> 1001) @@ ("1099" :> 1099) @@
    ("1100" :> 1100) @@ ("1300" :> 1300) @@ ("1301" :> 1301) @@
    ("1399" :> 1399) @@ ("1400" :> 1400) @@ ("1600" :> 1600) @@
    ("1601" :> 1601) @@ ("1699" :> 1699) @@ ("1700" :> 1700) @@
    ("3500" :> 3500)

\* str(rating_str).isdigit() (handlers.py line 67).
IsDigit(text) == text \in DOMAIN IntOfText

\* Mutant: the difficulty is compared without regard to case.
LcBucket_IgnoreCase(difficulty) ==
    IF difficulty \in {"Easy", "easy"} THEN "lc_easy"
    ELSE IF difficulty = "Medium" THEN "lc_medium"
    ELSE IF difficulty = "Hard" THEN "lc_hard"
    ELSE "lc_na"

\* handlers.py lines 47-55: the if/elif chain over the difficulty.
LcBucket(difficulty) ==
    IF difficulty = "Easy" THEN "lc_easy"
    ELSE IF difficulty = "Medium" THEN "lc_medium"
    ELSE IF difficulty = "Hard" THEN "lc_hard"
    ELSE "lc_na"

\* Mutant: the upper ends of the bands are exclusive.
CfBucket_ExclusiveUpper(rating_str) ==
    IF IsDigit(rating_str)
    THEN LET rating == IntOfText[rating_str]
         IN  IF 800 <= rating /\ rating < 1000 THEN "cf_800_1000"
             ELSE IF 1100 <= rating /\ rating < 1300 THEN "cf_1100_1300"
             ELSE IF 1400 <= rating /\ rating < 1600 THEN "cf_1400_1600"
             ELSE IF rating >= 1700 THEN "cf_1700_plus"
             ELSE "cf_na"
    ELSE "cf_na"

\* Mutant: the chain has no else for a number outside the bands.
CfBucket_NoElse(rating_str) ==
    IF IsDigit(rating_str)
    THEN LET rating == IntOfText[rating_str]
         IN  IF 800 <= rating /\ rating <= 1000 THEN "cf_800_1000"
             ELSE IF 1100 <= rating /\ rating <= 1300 THEN "cf_1100_1300"
             ELSE IF 1400 <= rating /\ rating <= 1600 THEN "cf_1400_1600"
             ELSE IF rating >= 1700 THEN "cf_1700_plus"
             ELSE "dropped"
    ELSE "cf_na"

\* handlers.py lines 66-81: the if/elif chain over the rating.
CfBucket(rating_str) ==
    IF IsDigit(rating_str)
    THEN LET rating == IntOfText[rating_str]
         IN  IF 800 <= rating /\ rating <= 1000 THEN "cf_800_1000"
             ELSE IF 1100 <= rating /\ rating <= 1300 THEN "cf_1100_1300"
             ELSE IF 1400 <= rating /\ rating <= 1600 THEN "cf_1400_1600"
             ELSE IF rating >= 1700 THEN "cf_1700_plus"
             ELSE "cf_na"
    ELSE "cf_na"

\* sum of counts[k] over the keys.
RECURSIVE SumCounts(_, _)
SumCounts(counts, keys) ==
    IF keys = {} THEN 0
    ELSE LET k == CHOOSE x \in keys : TRUE
         IN  counts[k] + SumCounts(counts, keys \ {k})

\* stats.get(platform, {}) (handlers.py lines 38-39).
StatsGet(stats, platform) ==
    IF platform \in DOMAIN stats THEN stats[platform] ELSE <<>>

\* handlers.py line 83.
GrandTotal(lc_total, cf_total) == lc_total + cf_total

\* _format_summary_message (handlers.py lines 36-83): the counters of the
\* two loops, the two platform totals and the grand total.
format_summary_message(stats) ==
    LET lc_stats == StatsGet(stats, "leetcode")
        cf_stats == StatsGet(stats, "codeforces")
        lc(b) == SumCounts(lc_stats, {d \in DOMAIN lc_stats : LcBucket(d) = b})
        cf(b) == SumCounts(cf_stats, {d \in DOMAIN cf_stats : CfBucket(d) = b})
        lc_total == SumCounts(lc_stats, DOMAIN lc_stats)
        cf_total == SumCounts(cf_stats, DOMAIN cf_stats)
    IN  [lc_easy |-> lc("lc_easy"), lc_medium |-> lc("lc_medium"),
         lc_hard |-> lc("lc_hard"), lc_na |-> lc("lc_na"),
         lc_total |-> lc_total,
         cf_800_1000 |-> cf("cf_800_1000"), cf_1100_1300 |-> cf("cf_1100_1300"),
         cf_1400_1600 |-> cf("cf_1400_1600"), cf_1700_plus |-> cf("cf_1700_plus"),
         cf_na |-> cf("cf_na"),
         cf_total |-> cf_total,
         grand_total |-> GrandTotal(lc_total, cf_total)]

\* What a table can hold for one problem on day `day`: nothing, or the day
\* its row was written on, which is never after the day the summary is
\* computed on, and the rating text.
LcCells(day) ==
    {<<>>} \cup {<<d, rt>> : d \in {x \in StatsDays : x <= day}, rt \in LcRatingTexts}

CfCells(day) ==
    {<<>>} \cup {<<d, rt>> : d \in {x \in StatsDays : x <= day}, rt \in CfRatingTexts}

\* The table of the cells: one row per (platform, problem_id), the primary
\* key.
TableOf(lc, cf) ==
    {Row("leetcode", p, lc[p][1], lc[p][2]) : p \in {q \in LcProblems : lc[q] # <<>>}}
    \cup
    {Row("codeforces", CfProblemId(p), cf[p][1], cf[p][2]) :
        p \in {q \in CfProblems : cf[q] # <<>>}}

\* The message of a summary: the "nothing solved" sentence when the grand
\* total is 0, the progress report otherwise (handlers.py lines 134-135,
\* main.py lines 96-97 and 121-122).
MessageForm(grand_total) ==
    IF grand_total = 0 THEN "nothing_solved" ELSE "progress_report"

statsFrame == <<today, solved, calls, targets, jobs, active, phase, kv, cfSubs, lcSubs,
                cfLocal, lcLocal, history>>

\* send_daily_summary (handlers.py lines 131-132).
DailySummary ==
    /\ \E db \in {"ok", "DatabaseError"} :
         LET stats == get_daily_stats_from_db(solved, today, db)
         IN  report' = [period |-> "daily", stats |-> stats,
                        summary |-> format_summary_message(stats),
                        message |-> MessageForm(format_summary_message(stats).grand_total)]
    /\ UNCHANGED statsFrame

\* send_weekly_summary (main.py lines 118-119).
WeeklySummary ==
    /\ \E db \in {"ok", "DatabaseError"} :
         LET stats == get_weekly_stats_from_db(solved, today, db)
         IN  report' = [period |-> "weekly", stats |-> stats,
                        summary |-> format_summary_message(stats),
                        message |-> MessageForm(format_summary_message(stats).grand_total)]
    /\ UNCHANGED statsFrame

\* send_monthly_summary (main.py lines 93-94).
MonthlySummary ==
    /\ \E db \in {"ok", "DatabaseError"} :
         LET stats == get_monthly_stats_from_db(solved, today, db)
         IN  report' = [period |-> "monthly", stats |-> stats,
                        summary |-> format_summary_message(stats),
                        message |-> MessageForm(format_summary_message(stats).grand_total)]
    /\ UNCHANGED statsFrame

\* The days a summary is computed on: the last day of February, the first
\* day of March (a Friday), the first Monday of March.
StatsTodays == {4, 5, 8}

\* A table as ingestion left it, on one day of the calendar; no checker job
\* is inside a tick.
StatsInit ==
    /\ active = {} /\ phase = "running"
    /\ today \in StatsTodays
    /\ \E lc \in [LcProblems -> LcCells(today)], cf \in [CfProblems -> CfCells(today)] :
         /\ Cardinality(TableOf(lc, cf)) <= MaxRows
         /\ solved = TableOf(lc, cf)
    /\ kv = <<>>
    /\ cfSubs = <<>> /\ lcSubs = <<>>
    /\ cfPc = "idle" /\ cfResp = "none" /\ cfOutcome = "none"
    /\ cfData = <<>> /\ cfLast = 0 /\ cfI = 1 /\ cfEvents = <<>>
    /\ lcPc = "idle" /\ lcResp = "none" /\ lcOutcome = "none"
    /\ lcData = <<>> /\ lcLast = 0 /\ lcI = 1 /\ lcEvents = <<>>
    /\ sendLog = {}
    /\ pre = [codeforces |-> -1, leetcode |-> -1]
    /\ examined = [codeforces |-> {}, leetcode |-> {}]
    /\ AuxInit

StatsNext ==
    \/ DailySummary
    \/ WeeklySummary
    \/ MonthlySummary

SpecStats == StatsInit /\ [][StatsNext]_vars

----------------------------------------------------------------------------
(* _format_summary_message and _format_progress_bar of
   chronos/bot/handlers.py as functions of their arguments *)

\* Most rating keys of one platform's map, and the largest count of a key.
MaxKeys == 2
MaxCount == 2

\* The value of a rating column that holds no text (a row written before the
\* column was added): None as a key of the map.
NULL == "<NULL>"

\* The texts a Codeforces row can carry: str() of a rating, 'NA', str(None),
\* no text.
CfStoredRatings == DOMAIN IntOfText \cup {"NA", "None", NULL}

\* The texts a LeetCode row can carry: a difficulty, a label of another
\* spelling, str(None), no text.
LcStoredRatings == {"Easy", "Medium", "Hard", "easy", "None", NULL}

\* The maps rating -> count over at most MaxKeys of the texts.
RatingMaps(texts) ==
    UNION {[ks -> 1..MaxCount] :
              ks \in UNION {{Range(f) : f \in [1..n -> texts]} : n \in 0..MaxKeys}}

\* stats of the rows of one platform: the platform is a key only when it has
\* a row.
StatsOfPlatform(platform, m) == IF DOMAIN m = {} THEN <<>> ELSE (platform :> m)

\* _format_summary_message (handlers.py lines 36-83) on the stats of the call.
FormatSummary ==
    /\ "stats" \in DOMAIN calls
    /\ report' = [stats |-> calls.stats,
                  summary |-> format_summary_message(calls.stats)]
    /\ UNCHANGED statsFrame

\* Largest count and largest target a progress bar is drawn for.
MaxCurrent == 41
MaxTarget == 40

\* (current / target) * 100 is computed in binary floating point.  Where the
\* exact value is halfway between two integers the double is that value, or
\* the nearest double below or above it; for current, target <= 64 with
\* current < target the double differs from the exact value at these ties.
FloatBelowTie == {<<23, 40>>}
FloatAboveTie == {<<11, 40>>}

\* f"{percentage:.0f}" (handlers.py lines 22, 33): min(100, (current /
\* target) * 100) rounded to the nearest integer, a double exactly halfway
\* going to the even one.
PercentageText(current, target) ==
    LET n == 100 * current
        q == n \div target
        r == n % target
    IN  IF current >= target THEN 100
        ELSE IF 2 * r < target THEN q
        ELSE IF 2 * r > target THEN q + 1
        ELSE IF <<current, target>> \in FloatBelowTie THEN q
        ELSE IF <<current, target>> \in FloatAboveTie THEN q + 1
        ELSE IF q % 2 = 0 THEN q ELSE q + 1

\* filled_blocks = int(percentage / 10) (handlers.py line 23).
FilledBlocks(current, target) ==
    IF current >= target THEN 10 ELSE (100 * current) \div (10 * target)

\* _format_progress_bar (handlers.py lines 17-33): the "no target" dash, or
\* the ten blocks and the percentage.
format_progress_bar(current, target) ==
    IF target = 0
    THEN [text |-> "-"]
    ELSE [filled |-> FilledBlocks(current, target),
          empty |-> 10 - FilledBlocks(current, target),
          percentage |-> PercentageText(current, target)]

\* _format_progress_bar on the count and the target of the call.
FormatProgressBar ==
    /\ "current" \in DOMAIN calls
    /\ report' = [current |-> calls.current, target |-> calls.target,
                  bar |-> format_progress_bar(calls.current, calls.target)]
    /\ UNCHANGED statsFrame

\* A summary is about to be formatted from the stats of one platform, or a
\* progress bar from a count and a target.
SummaryInit ==
    /\ active = {} /\ phase = "running" /\ today = 1
    /\ solved = {} /\ kv = <<>>
    /\ cfSubs = <<>> /\ lcSubs = <<>>
    /\ cfPc = "idle" /\ cfResp = "none" /\ cfOutcome = "none"
    /\ cfData = <<>> /\ cfLast = 0 /\ cfI = 1 /\ cfEvents = <<>>
    /\ lcPc = "idle" /\ lcResp = "none" /\ lcOutcome = "none"
    /\ lcData = <<>> /\ lcLast = 0 /\ lcI = 1 /\ lcEvents = <<>>
    /\ sendLog = {}
    /\ pre = [codeforces |-> -1, leetcode |-> -1]
    /\ examined = [codeforces |-> {}, leetcode |-> {}]
    /\ \/ \E m \in RatingMaps(CfStoredRatings) :
            calls = [stats |-> StatsOfPlatform("codeforces", m)]
       \/ \E m \in RatingMaps(LcStoredRatings) :
            calls = [stats |-> StatsOfPlatform("leetcode", m)]
       \/ \E current \in 0..MaxCurrent, target \in 0..MaxTarget :
            calls = [current |-> current, target |-> target]
    /\ targets = <<>>
    /\ report = <<>>
    /\ jobs = <<>>

SummaryNext ==
    \/ FormatSummary
    \/ FormatProgressBar

SpecSummary == SummaryInit /\ [][SummaryNext]_vars

----------------------------------------------------------------------------
(* The target store: set_leetcode_target and get_leetcode_target of
   chronos/data/database.py *)

\* Largest threshold of a target.
MaxThreshold == 1

\* The CHECK constraint of leetcode_targets.target_type (lines 57, 225, 255).
TargetTypes == {"daily", "weekly", "monthly"}

Thresholds == 0..MaxThreshold

\* {'easy': 0, 'medium': 0, 'hard': 0} (lines 277, 280).
NoTarget == [easy |-> 0, medium |-> 0, hard |-> 0]

\* get_leetcode_target (lines 253-280): the row of the type, all zero when
\* there is none and all zero when the statement fails.
get_leetcode_target(rows, target_type, outcome) ==
    IF outcome = "ok" /\ target_type \in DOMAIN rows
    THEN rows[target_type]
    ELSE NoTarget

targetsFrame == <<today, solved, jobs, active, phase, kv, cfSubs, lcSubs,
                  cfLocal, lcLocal, history>>

\* A call of set_leetcode_target with a valid type; calls.last keeps the
\* values of the most recent call of each type that returned True.
TargetSet ==
    /\ \E target_type \in TargetTypes, easy \in Thresholds, medium \in Thresholds,
          hard \in Thresholds, db \in DbOutcomes :
         /\ targets' = IF db = "ConnectError" THEN targets
                       ELSE set_leetcode_target(targets, target_type, easy, medium, hard, db)
         /\ calls' = IF db = "ok"
                     THEN [calls EXCEPT !.last[target_type] =
                              <<[easy |-> easy, medium |-> medium, hard |-> hard]>>]
                     ELSE calls
    /\ UNCHANGED <<report, targetsFrame>>

\* A call of get_leetcode_target that returns.
TargetGet ==
    /\ \E target_type \in TargetTypes, db \in {"ok", "DatabaseError"} :
         report' = [target_type |-> target_type,
                    result |-> get_leetcode_target(targets, target_type, db)]
    /\ UNCHANGED <<targets, calls, targetsFrame>>

\* init_db has created an empty leetcode_targets table.
TargetsInit ==
    /\ active = {} /\ phase = "running" /\ today = 1
    /\ solved = {} /\ kv = <<>>
    /\ cfSubs = <<>> /\ lcSubs = <<>>
    /\ cfPc = "idle" /\ cfResp = "none" /\ cfOutcome = "none"
    /\ cfData = <<>> /\ cfLast = 0 /\ cfI = 1 /\ cfEvents = <<>>
    /\ lcPc = "idle" /\ lcResp = "none" /\ lcOutcome = "none"
    /\ lcData = <<>> /\ lcLast = 0 /\ lcI = 1 /\ lcEvents = <<>>
    /\ sendLog = {}
    /\ pre = [codeforces |-> -1, leetcode |-> -1]
    /\ examined = [codeforces |-> {}, leetcode |-> {}]
    /\ calls = [last |-> [t \in TargetTypes |-> <<>>]]
    /\ targets = <<>>
    /\ report = <<>>
    /\ jobs = <<>>

TargetsNext ==
    \/ TargetSet
    \/ TargetGet

SpecTargets == TargetsInit /\ [][TargetsNext]_vars

----------------------------------------------------------------------------
(* The set-target commands: set_daily_target_handler,
   set_weekly_target_handler and set_monthly_target_handler of
   chronos/bot/handlers.py *)

\* Most arguments of a command.
MaxArgs == 4

\* The words a command can carry, and int() of those it accepts.
ArgTexts == {"2", "-1", "1.5"}
IntOfArg == ("2" :> 2) @@ ("-1" :> -1)

\* int(context.args[i]) raises ValueError (lines 393-395, 432-433).
ArgRaises(text) == text \notin DOMAIN IntOfArg

\* Mutant: only the first value is tested.
AnyNegative_EasyOnly(easy, medium, hard) == easy < 0

\* if easy < 0 or medium < 0 or hard < 0 (line 397).
AnyNegative(easy, medium, hard) == easy < 0 \/ medium < 0 \/ hard < 0

\* The reply of the handler of target_type to args, before the store is
\* touched: a usage text, an integers text, a non-negative text, or none.
HandlerRejects(args) ==
    IF Len(args) # 3 THEN "usage"
    ELSE IF \E i \in 1..3 : ArgRaises(args[i]) THEN "not_integers"
    ELSE IF AnyNegative(IntOfArg[args[1]], IntOfArg[args[2]], IntOfArg[args[3]])
    THEN "not_non_negative"
    ELSE "none"

\* set_leetcode_target raises ValueError before it opens a connection
\* (database.py lines 225-226).
TargetTypeRaises(target_type) == target_type \notin TargetTypes

\* /dset, /wset, /mset with args: the checks, then set_leetcode_target and
\* the reply for its result.
TargetCommand ==
    /\ \E target_type \in TargetTypes, n \in 0..MaxArgs :
       \E args \in [1..n -> ArgTexts] :
         LET rejects == HandlerRejects(args)
         IN  IF rejects # "none"
             THEN /\ targets' = targets
                  /\ report' = [command |-> target_type, args |-> args, reply |-> rejects]
             ELSE \E db \in DbOutcomes :
                  /\ targets' = IF db = "ConnectError" THEN targets
                               ELSE set_leetcode_target(targets, target_type,
                                        IntOfArg[args[1]], IntOfArg[args[2]],
                                        IntOfArg[args[3]], db)
                  /\ report' = [command |-> target_type, args |-> args,
                                reply |-> IF db = "ok" THEN "target_set"
                                          ELSE IF db = "DatabaseError" THEN "failed"
                                          ELSE "raised"]
    /\ UNCHANGED <<calls, targetsFrame>>

\* set_leetcode_target called with a type of its own choosing.
TargetSetCall ==
    /\ \E target_type \in TargetTypes \cup {"yearly", ""}, db \in DbOutcomes :
         IF TargetTypeRaises(target_type)
         THEN /\ targets' = targets
              /\ report' = [call |-> target_type, result |-> "ValueError"]
         ELSE /\ targets' = IF db = "ConnectError" THEN targets
                            ELSE set_leetcode_target(targets, target_type, 2, 2, 2, db)
              /\ report' = [call |-> target_type,
                            result |-> IF db = "ok" THEN "True"
                                       ELSE IF db = "DatabaseError" THEN "False"
                                       ELSE "raised"]
    /\ UNCHANGED <<calls, targetsFrame>>

\* init_db has created an empty leetcode_targets table; no command has come.
CommandsInit ==
    /\ active = {} /\ phase = "running" /\ today = 1
    /\ solved = {} /\ kv = <<>>
    /\ cfSubs = <<>> /\ lcSubs = <<>>
    /\ cfPc = "idle" /\ cfResp = "none" /\ cfOutcome = "none"
    /\ cfData = <<>> /\ cfLast = 0 /\ cfI = 1 /\ cfEvents = <<>>
    /\ lcPc = "idle" /\ lcResp = "none" /\ lcOutcome = "none"
    /\ lcData = <<>> /\ lcLast = 0 /\ lcI = 1 /\ lcEvents = <<>>
    /\ sendLog = {}
    /\ pre = [codeforces |-> -1, leetcode |-> -1]
    /\ examined = [codeforces |-> {}, leetcode |-> {}]
    /\ AuxInit

CommandsNext ==
    \/ TargetCommand
    \/ TargetSetCall

SpecCommands == CommandsInit /\ [][CommandsNext]_vars

----------------------------------------------------------------------------
(* The summary jobs at 23:59: send_daily_summary,
   daily_check_and_send_weekly_summary and
   daily_check_and_send_monthly_summary of chronos/main.py *)

\* Days the clock runs from its first day.
MaxDays == 14

DayNames == <<"Mon", "Tue", "Wed", "Thu", "Fri", "Sat", "Sun">>

\* The day name after name.
NextDayName(name) ==
    LET i == CHOOSE j \in 1..7 : DayNames[j] = name
    IN  DayNames[(i % 7) + 1]

\* datetime.weekday(): Monday is 0, Sunday is 6.
weekday(name) == (CHOOSE j \in 1..7 : DayNames[j] = name) - 1

IsLeap(year) == year % 4 = 0 /\ (year % 100 # 0 \/ year % 400 = 0)

\* calendar.monthrange(year, month)[1]: the number of days of the month.
monthrange(year, month) ==
    IF month = 2 THEN (IF IsLeap(year) THEN 29 ELSE 28)
    ELSE IF month \in {4, 6, 9, 11} THEN 30
    ELSE 31

\* The date after date d.
Tomorrow(d) ==
    IF d.day < monthrange(d.year, d.month)
    THEN [d EXCEPT !.day = @ + 1, !.name = NextDayName(@)]
    ELSE IF d.month < 12
    THEN [d EXCEPT !.day = 1, !.month = @ + 1, !.name = NextDayName(@)]
    ELSE [d EXCEPT !.day = 1, !.month = 1, !.year = @ + 1, !.name = NextDayName(@)]

\* Mondays the clock starts on: before the end of a leap February, of a
\* common February, of a December, of the February of 2100 and of an April.
FirstDays ==
    {[year |-> 2024, month |-> 2, day |-> 26, name |-> "Mon"],
     [year |-> 2023, month |-> 2, day |-> 20, name |-> "Mon"],
     [year |-> 2024, month |-> 12, day |-> 23, name |-> "Mon"],
     [year |-> 2100, month |-> 2, day |-> 22, name |-> "Mon"],
     [year |-> 2024, month |-> 4, day |-> 22, name |-> "Mon"]}

\* The three jobs main() schedules with run_daily at 23:59 (lines 199-218).
SummaryJobs == {"daily_summary", "weekly_summary", "monthly_summary"}

\* daily_check_and_send_weekly_summary (lines 145-152): now.weekday() == 6.
WeeklyDue(now) == weekday(now.name) = 6

\* Mutant: the last day of a month is taken to be the 30th.
MonthlyDue_Day30(now) == now.day = 30

\* daily_check_and_send_monthly_summary (lines 155-162):
\* now.day == calendar.monthrange(now.year, now.month)[1].
MonthlyDue(now) == now.day = monthrange(now.year, now.month)

\* The summary a job sends when it runs at `now`, "none" when it sends none.
JobSends(name, now) ==
    IF name = "daily_summary" THEN "daily"
    ELSE IF name = "weekly_summary" THEN (IF WeeklyDue(now) THEN "weekly" ELSE "none")
    ELSE IF MonthlyDue(now) THEN "monthly" ELSE "none"

calendarFrame == <<solved, calls, targets, report, active, phase, kv, cfSubs, lcSubs,
                   cfLocal, lcLocal, history>>

\* 23:59 of today: a job that has not run today runs.
SummaryJobRuns(name) ==
    /\ name \notin jobs.ran
    /\ jobs' = [jobs EXCEPT !.ran = @ \cup {name},
                             !.sent = @ \cup ({JobSends(name, today)} \ {"none"})]
    /\ UNCHANGED <<today, calendarFrame>>

\* Midnight: the next day begins, no job has run on it.
Midnight ==
    /\ jobs.days < MaxDays
    /\ today' = Tomorrow(today)
    /\ jobs' = [ran |-> {}, sent |-> {}, days |-> jobs.days + 1]
    /\ UNCHANGED calendarFrame

CalendarInit ==
    /\ active = {} /\ phase = "running"
    /\ today \in FirstDays
    /\ solved = {} /\ kv = <<>>
    /\ cfSubs = <<>> /\ lcSubs = <<>>
    /\ cfPc = "idle" /\ cfResp = "none" /\ cfOutcome = "none"
    /\ cfData = <<>> /\ cfLast = 0 /\ cfI = 1 /\ cfEvents = <<>>
    /\ lcPc = "idle" /\ lcResp = "none" /\ lcOutcome = "none"
    /\ lcData = <<>> /\ lcLast = 0 /\ lcI = 1 /\ lcEvents = <<>>
    /\ sendLog = {}
    /\ pre = [codeforces |-> -1, leetcode |-> -1]
    /\ examined = [codeforces |-> {}, leetcode |-> {}]
    /\ calls = <<>> /\ targets = <<>> /\ report = <<>>
    /\ jobs = [ran |-> {}, sent |-> {}, days |-> 0]

CalendarNext ==
    \/ \E name \in SummaryJobs : SummaryJobRuns(name)
    \/ Midnight

SpecCalendar == CalendarInit /\ [][CalendarNext]_vars

----------------------------------------------------------------------------
(* The two checker jobs side by side: check_codeforces_submissions and
   check_leetcode_submissions on the same stores *)

\* Both checkers are scheduled; each account holds accepted submissions that
\* the stores know nothing of.
PairInit ==
    /\ active = {"codeforces", "leetcode"}
    /\ phase = "running"
    /\ today = 1
    /\ kv = [k \in {} |-> 0]
    /\ solved = {}
    /\ \E problem \in CfProblems :
         cfSubs = <<[id |-> 1, creationTimeSeconds |-> 1, verdict |-> "OK",
                     problem |-> problem]>>
    /\ \E slug \in LcProblems :
         lcSubs = <<[id |-> 1, timestamp |-> 1, titleSlug |-> slug]>>
    /\ cfPc = "idle" /\ cfResp = "none" /\ cfOutcome = "none"
    /\ cfData = <<>> /\ cfLast = 0 /\ cfI = 1 /\ cfEvents = <<>>
    /\ lcPc = "idle" /\ lcResp = "none" /\ lcOutcome = "none"
    /\ lcData = <<>> /\ lcLast = 0 /\ lcI = 1 /\ lcEvents = <<>>
    /\ sendLog = {}
    /\ pre = [codeforces |-> 0, leetcode |-> 0]
    /\ examined = [codeforces |-> {}, leetcode |-> {}]
    /\ AuxInit

\* The steps of the two jobs, in any interleaving.
PairNext ==
    \/ CfFetch
    \/ CfLog
    \/ CfSend
    \/ CfSave
    \/ LcFetch
    \/ LcLog
    \/ LcSend
    \/ LcSave

SpecPair == PairInit /\ [][PairNext]_vars

----------------------------------------------------------------------------
(* The checkers under a scheduler that keeps firing them and collaborators
   that do not fail forever *)

\* The steps of a tick in which nothing fails: the response is good and the
\* cursor is read, the insert statement runs, the notification is delivered,
\* the cursor is written.
CfFetchOk ==
    /\ CfFetch
    /\ cfResp' = "ok" /\ cfOutcome' \in {"running", "completed"}
    /\ cfPc' = "log" => cfLast' = Cursor("codeforces")

CfLogOk ==
    /\ CfLogH
    /\ cfPc' # "idle"
    /\ HasRow(solved', "codeforces", CfProblemId(CfCurrent.problem))

CfSendOk == CfSend /\ cfPc' = "save"

CfSaveOk ==
    /\ CfSave
    /\ cfOutcome' # "aborted"
    /\ CursorOf(kv', "codeforces") = CfCurrent.id

LcFetchOk ==
    /\ LcFetch
    /\ lcResp' = "ok" /\ lcOutcome' \in {"running", "completed"}
    /\ lcPc' = "log" => lcLast' = Cursor("leetcode")

LcLogOk ==
    /\ LcLogH
    /\ lcPc' # "idle"
    /\ HasRow(solved', "leetcode", LcCurrent.titleSlug)

LcSendOk == LcSend /\ lcPc' = "save"

LcSaveOk ==
    /\ LcSave
    /\ lcOutcome' # "aborted"
    /\ CursorOf(kv', "leetcode") = LcCurrent.timestamp

\* The process was started on an account without submissions, so the seeding
\* of main and post_initialization found nothing and left the cursor unset.
LiveInit ==
    /\ active \in {{"codeforces"}, {"leetcode"}}
    /\ phase = "running"
    /\ today = 1
    /\ kv = [k \in {} |-> 0]
    /\ solved = {}
    /\ cfSubs = <<>>
    /\ lcSubs = <<>>
    /\ cfPc = "idle" /\ cfResp = "none" /\ cfOutcome = "none"
    /\ cfData = <<>> /\ cfLast = 0 /\ cfI = 1 /\ cfEvents = <<>>
    /\ lcPc = "idle" /\ lcResp = "none" /\ lcOutcome = "none"
    /\ lcData = <<>> /\ lcLast = 0 /\ lcI = 1 /\ lcEvents = <<>>
    /\ sendLog = {}
    /\ pre = [codeforces |-> 0, leetcode |-> 0]
    /\ examined = [codeforces |-> {}, leetcode |-> {}]
    /\ AuxInit

\* The process keeps running: run_repeating fires the checkers every 60 s.
LiveNext ==
    \/ CfSubmit
    \/ CfJudge
    \/ CfFetch
    \/ CfLogH
    \/ CfSend
    \/ CfSave
    \/ LcSubmit
    \/ LcFetch
    \/ LcLogH
    \/ LcSend
    \/ LcSave

\* A step that can succeed again and again does succeed at some time.
LiveFairness ==
    /\ SF_vars(CfFetchOk) /\ SF_vars(CfLogOk) /\ SF_vars(CfSendOk) /\ SF_vars(CfSaveOk)
    /\ SF_vars(LcFetchOk) /\ SF_vars(LcLogOk) /\ SF_vars(LcSendOk) /\ SF_vars(LcSaveOk)

SpecLive == LiveInit /\ [][LiveNext]_vars /\ LiveFairness

----------------------------------------------------------------------------
(* The checkers on a fetch window that does not change *)

\* The process is running and the account holds accepted submissions made
\* after the first run; nothing is submitted or judged any more.
WindowInit ==
    /\ active \in {{"codeforces"}, {"leetcode"}}
    /\ phase = "running"
    /\ today = 1
    /\ kv = [k \in {} |-> 0]
    /\ solved = {}
    /\ \E n \in 1..MaxSubs, problems \in [1..MaxSubs -> CfProblems],
          dts \in [1..MaxSubs -> {0, 1}] :
         cfSubs = [i \in 1..n |->
                     [id |-> i,
                      creationTimeSeconds |-> IF i = 1 THEN 1 ELSE 1 + dts[i],
                      verdict |-> "OK",
                      problem |-> problems[i]]]
    /\ \E n \in 1..MaxSubs, slugs \in [1..MaxSubs -> LcProblems],
          dts \in [1..MaxSubs -> {0, 1}] :
         lcSubs = [i \in 1..n |->
                     [id |-> i,
                      timestamp |-> IF i = 1 THEN 1 ELSE 1 + dts[i],
                      titleSlug |-> slugs[i]]]
    /\ cfPc = "idle" /\ cfResp = "none" /\ cfOutcome = "none"
    /\ cfData = <<>> /\ cfLast = 0 /\ cfI = 1 /\ cfEvents = <<>>
    /\ lcPc = "idle" /\ lcResp = "none" /\ lcOutcome = "none"
    /\ lcData = <<>> /\ lcLast = 0 /\ lcI = 1 /\ lcEvents = <<>>
    /\ sendLog = {}
    /\ pre = [codeforces |-> 0, leetcode |-> 0]
    /\ examined = [codeforces |-> {}, leetcode |-> {}]
    /\ AuxInit

\* Tick after tick on the same window.
WindowNext ==
    \/ CfFetch
    \/ CfLogH
    \/ CfSend
    \/ CfSave
    \/ LcFetch
    \/ LcLogH
    \/ LcSend
    \/ LcSave

SpecWindow == WindowInit /\ [][WindowNext]_vars

----------------------------------------------------------------------------
(* The daily report and the inserts of the day: run_daily(send_daily_summary)
   at 23:59:00 and log_problem_solved at any time of the day *)

dayFrame == <<active, phase, kv, cfSubs, lcSubs, cfLocal, lcLocal, history, calls, targets>>

\* A checker tick inserts a row, before or after the report of the day; the
\* date is the one of the moment of the insert.
DayInsert ==
    /\ \E k \in DedupKeys, db \in DbOutcomes :
         \E rating \in RatingsOf(k[1]) :
            solved' = log_problem_solved_rows(solved, k[1], k[2], today, rating, db)
    /\ UNCHANGED <<today, report, jobs, dayFrame>>

\* 23:59:00: the daily summary job runs once a day.  A connection that
\* cannot be opened raises out of get_daily_summary_message and a send_message
\* that fails raises out of send_daily_summary (handlers.py 149-154): nothing
\* is sent.  Otherwise the report is sent; the rows its statement selected are
\* kept with it (none when the statement failed and the empty map came back).
DayReport ==
    /\ ~jobs.ran
    /\ \E db \in DbOutcomes, delivered \in BOOLEAN :
         IF db = "ConnectError" \/ ~delivered
         THEN /\ report' = report
              /\ jobs' = [ran |-> TRUE, sent |-> FALSE]
         ELSE /\ report' = Append(report,
                     [day |-> today,
                      stats |-> get_daily_stats_from_db(solved, today, db),
                      counted |-> IF db = "ok"
                                  THEN {r \in solved : r.first_solve_date = today}
                                  ELSE {}])
              /\ jobs' = [ran |-> TRUE, sent |-> TRUE]
    /\ UNCHANGED <<today, solved, dayFrame>>

\* 00:00:00: the next day begins, whatever became of the job of 23:59:00.
DayMidnight ==
    /\ jobs.ran
    /\ today < MaxDay
    /\ today' = today + 1
    /\ jobs' = [ran |-> FALSE, sent |-> FALSE]
    /\ UNCHANGED <<solved, report, dayFrame>>

DayInit ==
    /\ IngestIdle
    /\ calls = <<>>
    /\ targets = <<>>
    /\ report = <<>>
    /\ jobs = [ran |-> FALSE, sent |-> FALSE]

DayNext ==
    \/ DayInsert
    \/ DayReport
    \/ DayMidnight

SpecDay == DayInit /\ [][DayNext]_vars

----------------------------------------------------------------------------
(* set_leetcode_target next to the cursors and the solved problems *)

\* The stores hold cursors and rows when the targets are set.
TargetFrameInit ==
    /\ active = {} /\ phase = "running" /\ today = 1
    /\ kv = (LAST_CF_SUBMISSION_ID_KEY :> 1) @@ (LAST_LC_TIMESTAMP_KEY :> 1)
    /\ solved = {Row("codeforces", <<1, "A">>, 1, "800"),
                 Row("leetcode", "two-sum", 1, "Easy")}
    /\ cfSubs = <<>> /\ lcSubs = <<>>
    /\ cfPc = "idle" /\ cfResp = "none" /\ cfOutcome = "none"
    /\ cfData = <<>> /\ cfLast = 0 /\ cfI = 1 /\ cfEvents = <<>>
    /\ lcPc = "idle" /\ lcResp = "none" /\ lcOutcome = "none"
    /\ lcData = <<>> /\ lcLast = 0 /\ lcI = 1 /\ lcEvents = <<>>
    /\ sendLog = {}
    /\ pre = [codeforces |-> -1, leetcode |-> -1]
    /\ examined = [codeforces |-> {}, leetcode |-> {}]
    /\ calls = [last |-> [t \in TargetTypes |-> <<>>]]
    /\ targets = <<>>
    /\ report = <<>>
    /\ jobs = <<>>

TargetFrameNext ==
    \/ TargetSet

SpecTargetFrame == TargetFrameInit /\ [][TargetFrameNext]_vars

----------------------------------------------------------------------------
(* A run of main with TEST_MODE set or not *)

\* application.stop() is called without being awaited and before run_polling
\* has started the application (main.py 74-76); what the call brings about is
\* the library's matter: the application exits, or it goes on running.
StopOutcomes == {"stopped", "running"}

\* post_initialization, lines 46-77, with TEST_MODE set: the channel is
\* verified (a failure is raised again and shuts the application down), the
\* test messages are sent, application.stop() is called and the coroutine
\* returns before the LeetCode seeding.
TestModePostInit ==
    /\ phase = "post_init"
    /\ calls.test_mode
    /\ \E channel_ok \in BOOLEAN, stop \in StopOutcomes :
         IF ~channel_ok
         THEN /\ phase' = "stopped"
              /\ report' = report
         ELSE /\ phase' = stop
              /\ report' = Append(report,
                     IF calls.stats_only THEN "daily_summary" ELSE "test_submissions")
    /\ UNCHANGED <<calls, targets, jobs, active, today, kv, solved, cfSubs, lcSubs,
                   cfLocal, lcLocal, history>>

\* The same coroutine without TEST_MODE: the LeetCode seeding.
NormalPostInit ==
    /\ ~calls.test_mode
    /\ PostInitSeedLc

\* main is started on stores that hold nothing yet or a cursor and a row of
\* an earlier run; the Codeforces account has a submission or none.
TestModeInit ==
    /\ active = {"codeforces"}
    /\ phase = "main"
    /\ today = 1
    /\ \E earlier \in BOOLEAN :
         /\ kv = IF earlier THEN (LAST_CF_SUBMISSION_ID_KEY :> 1) ELSE <<>>
         /\ solved = IF earlier THEN {Row("codeforces", <<1, "A">>, 1, "800")} ELSE {}
    /\ \E n \in 0..MaxSubs, problems \in [1..MaxSubs -> CfProblems] :
         cfSubs = [i \in 1..n |->
                     [id |-> i, creationTimeSeconds |-> i, verdict |-> "OK",
                      problem |-> problems[i]]]
    /\ lcSubs = <<>>
    /\ cfPc = "idle" /\ cfResp = "none" /\ cfOutcome = "none"
    /\ cfData = <<>> /\ cfLast = 0 /\ cfI = 1 /\ cfEvents = <<>>
    /\ lcPc = "idle" /\ lcResp = "none" /\ lcOutcome = "none"
    /\ lcData = <<>> /\ lcLast = 0 /\ lcI = 1 /\ lcEvents = <<>>
    /\ sendLog = {}
    /\ pre = [codeforces |-> -1, leetcode |-> -1]
    /\ examined = [codeforces |-> {}, leetcode |-> {}]
    /\ \E test_mode \in BOOLEAN, stats_only \in BOOLEAN :
         calls = [test_mode |-> test_mode, stats_only |-> stats_only]
    /\ targets = <<>>
    /\ report = <<>>
    /\ jobs = <<>>

TestModeNext ==
    \/ MainSeedCf
    \/ TestModePostInit
    \/ NormalPostInit
    \/ CfFetch
    \/ CfLog
    \/ CfSend
    \/ CfSave

SpecTestMode == TestModeInit /\ [][TestModeNext]_vars

----------------------------------------------------------------------------
(* Properties *)

SameProblem(e1, e2) ==
    e1.platform = e2.platform /\ e1.problem_id = e2.problem_id

CfAccepted(i) == cfSubs[i].verdict = "OK"

\* Both submissions of a two-submission Codeforces history are accepted
\* submissions of one problem.
CfSolvedTwice ==
    /\ Len(cfSubs) = 2
    /\ CfAccepted(1) /\ CfAccepted(2)
    /\ cfSubs[1].problem = cfSubs[2].problem

\* C1: over any sequence of ticks (overlapping windows, several accepted
\* submissions of one problem, aborted ticks, restarts) at most one
\* notification send attempt is ever made per (platform, problem_id).
C1_AtMostOneSolveEvent ==
    \A e1, e2 \in sendLog : SameProblem(e1, e2) => e1 = e2

\* A problem accepted twice, both submissions behind the cursor after a
\* completed tick, one notification delivered.
C1_Witness ==
    /\ CfSolvedTwice
    /\ cfPc = "idle" /\ cfOutcome = "completed"
    /\ Cursor("codeforces") = 2
    /\ \E e \in sendLog : e.delivered /\ e.problem_id = CfProblemId(cfSubs[1].problem)

\* C2: every cursor write stores a value greater than or equal to the value
\* it replaces.
C2_CursorNeverDecreases ==
    [][\A p \in Platforms : CursorOf(kv', p) >= CursorOf(kv, p)]_vars

\* C3: a tick that runs to completion leaves the cursor at the largest
\* sequence value among the accepted records of its window above the cursor
\* it read; with no such record the cursor is unchanged.
C3_CursorEndsAtMax ==
    [][/\ (cfPc = "save" /\ cfPc' = "idle" /\ cfOutcome' = "completed")
            => CursorOf(kv', "codeforces")
                 = MaxOf({x.id : x \in Range(CfNewSuccessful(cfData, cfLast))})
       /\ (cfPc = "idle" /\ cfPc' = "idle" /\ cfOutcome' = "completed")
            => CursorOf(kv', "codeforces") = CursorOf(kv, "codeforces")
       /\ (lcPc = "save" /\ lcPc' = "idle" /\ lcOutcome' = "completed")
            => CursorOf(kv', "leetcode")
                 = MaxOf({x.timestamp : x \in Range(LcNewSubmissions(lcData, lcLast))})
       /\ (lcPc = "idle" /\ lcPc' = "idle" /\ lcOutcome' = "completed")
            => CursorOf(kv', "leetcode") = CursorOf(kv, "leetcode")
      ]_vars

\* C4: no accepted submission made after the first run is skipped by the
\* cursor filter: after a completed tick, an accepted submission that no tick
\* has examined is still above the cursor.
C4_NoneSkippedByCursor ==
    /\ (cfPc = "idle" /\ cfOutcome = "completed") =>
          \A i \in 1..Len(cfSubs) :
             (CfAccepted(i) /\ i > pre["codeforces"]
                  /\ cfSubs[i].id \notin examined["codeforces"])
               => cfSubs[i].id > Cursor("codeforces")
    /\ (lcPc = "idle" /\ lcOutcome = "completed") =>
          \A i \in 1..Len(lcSubs) :
             (i > pre["leetcode"] /\ lcSubs[i].id \notin examined["leetcode"])
               => lcSubs[i].timestamp > Cursor("leetcode")

\* C5: when the notification of a newly inserted record is not delivered,
\* the cursor still advances to that record's sequence value in the tick.
C5_CursorAdvancesOnDeliveryFailure ==
    [][/\ (cfPc = "send" /\ \E e \in sendLog' \ sendLog : ~e.delivered)
            => CursorOf(kv', "codeforces") = CfCurrent.id
       /\ (lcPc = "send" /\ \E e \in sendLog' \ sendLog : ~e.delivered)
            => CursorOf(kv', "leetcode") = LcCurrent.timestamp
      ]_vars

\* C6: after a failed delivery the SolvedProblem row stays in the Dedup Store
\* and no further notification is attempted for that problem.
C6_FailedDeliveryNotRetried ==
    [][\A e \in sendLog : ~e.delivered =>
          /\ HasRow(solved, e.platform, e.problem_id)
          /\ HasRow(solved', e.platform, e.problem_id)
          /\ \A f \in sendLog' : SameProblem(e, f) => f = e
      ]_vars

\* A failed delivery for a problem, and a later accepted submission of the
\* same problem behind the cursor after a completed tick.
C6_Witness ==
    /\ CfSolvedTwice
    /\ cfPc = "idle" /\ cfOutcome = "completed"
    /\ Cursor("codeforces") = 2
    /\ \E e \in sendLog : ~e.delivered /\ e.problem_id = CfProblemId(cfSubs[1].problem)

\* C7: when the Dedup Store write for a record fails, the cursor is not
\* advanced to or past the record in that tick.  (The loop is at its cursor
\* write with no row for the record's problem exactly when the INSERT failed.)
C7_CursorHeldOnStoreError ==
    [][/\ (cfPc = "save" /\ ~HasRow(solved, "codeforces", CfProblemId(CfCurrent.problem)))
            => ~(kv' # kv /\ CursorOf(kv', "codeforces") >= CfCurrent.id)
       /\ (lcPc = "save" /\ ~HasRow(solved, "leetcode", LcCurrent.titleSlug))
            => ~(kv' # kv /\ CursorOf(kv', "leetcode") >= LcCurrent.timestamp)
      ]_vars

PlatformRows(rows, platform) == {r \in rows : r.platform = platform}

PlatformAttempts(log, platform) == {e \in log : e.platform = platform}

\* C8: a tick whose fetch fails ends at once, and from its failure until the
\* next tick the platform's cursor, its rows and its notifications are those
\* of before the tick.
C8_FetchFailureChangesNothing ==
    [][/\ cfResp' = "failed" =>
            /\ cfPc' = "idle"
            /\ CursorOf(kv', "codeforces") = CursorOf(kv, "codeforces")
            /\ PlatformRows(solved', "codeforces") = PlatformRows(solved, "codeforces")
            /\ PlatformAttempts(sendLog', "codeforces") = PlatformAttempts(sendLog, "codeforces")
       /\ lcResp' = "failed" =>
            /\ lcPc' = "idle"
            /\ CursorOf(kv', "leetcode") = CursorOf(kv, "leetcode")
            /\ PlatformRows(solved', "leetcode") = PlatformRows(solved, "leetcode")
            /\ PlatformAttempts(sendLog', "leetcode") = PlatformAttempts(sendLog, "leetcode")
      ]_vars

\* A failed fetch while an accepted submission above the cursor was waiting.
C8_Witness ==
    /\ cfResp = "failed"
    /\ cfPc = "idle" /\ cfOutcome = "fetch_failed"
    /\ \E i \in 1..Len(cfSubs) : CfAccepted(i) /\ cfSubs[i].id > Cursor("codeforces")

\* C9: no submission that existed before the first run is ever examined.
C9_HistoryNotReplayed ==
    /\ \A id \in examined["codeforces"] : id > pre["codeforces"]
    /\ \A id \in examined["leetcode"] : id > pre["leetcode"]

\* C10: within one tick the notifications are issued in ascending order of
\* sequence value.
C10_EventsAscending ==
    /\ Ascending(cfEvents)
    /\ Ascending(lcEvents)

\* The record the tick is at had its row before the tick came to it: the tick
\* has sent no notification for it (a tick reaches the cursor write of a new
\* record only through a delivered notification).
CfDuplicateAtHand ==
    /\ HasRow(solved, "codeforces", CfProblemId(CfCurrent.problem))
    /\ CfCurrent.id \notin Range(cfEvents)

LcDuplicateAtHand ==
    /\ HasRow(solved, "leetcode", LcCurrent.titleSlug)
    /\ LcCurrent.timestamp \notin Range(lcEvents)

\* C11: an accepted submission above the cursor whose problem already has a
\* row is examined without effect on the table and on the notifications, and
\* the cursor advances to its sequence value: the log step of the tick for
\* such a record leaves the rows and the notifications as they are, and when
\* the tick has gone through line 121 (leetcode.py line 273) for it and
\* carries on, the persisted cursor is the record's sequence value, so that
\* the filter of the next tick leaves the record out.
C11_DuplicateExaminedWithoutEffect ==
    [][/\ (cfPc = "log" /\ cfPc' # cfPc /\ CfDuplicateAtHand)
            => /\ solved' = solved
               /\ sendLog' = sendLog
               /\ (cfPc' = "save" \/ cfOutcome' \in {"aborted", "none"})
       /\ (cfPc = "save" /\ cfPc' # cfPc /\ cfOutcome' \in {"running", "completed"}
                /\ CfDuplicateAtHand)
            => /\ solved' = solved
               /\ sendLog' = sendLog
               /\ CursorOf(kv', "codeforces") = CfCurrent.id
       /\ (lcPc = "log" /\ lcPc' # lcPc /\ LcDuplicateAtHand)
            => /\ solved' = solved
               /\ sendLog' = sendLog
               /\ (lcPc' = "save" \/ lcOutcome' \in {"aborted", "none"})
       /\ (lcPc = "save" /\ lcPc' # lcPc /\ lcOutcome' \in {"running", "completed"}
                /\ LcDuplicateAtHand)
            => /\ solved' = solved
               /\ sendLog' = sendLog
               /\ CursorOf(kv', "leetcode") = LcCurrent.timestamp
      ]_vars

\* The ids the loop of the current tick runs over, in its order.
CfLoopIds == [i \in 1..Len(CfSorted(cfData, cfLast)) |-> CfSorted(cfData, cfLast)[i].id]

ScnEvents(problem) ==
    {e \in sendLog : e.platform = "codeforces" /\ e.problem_id = CfProblemId(problem)}

C13_InsertIfAbsentAtomic ==
    \A k \in DedupKeys :
        /\ Cardinality(RowsOf(k)) = calls.trues[k]
        /\ calls.trues[k] <= 1
        /\ calls.clean[k] => calls.trues[k] = 1

\* The race: a caller of the ORM version found no row and has not committed
\* yet, while another caller has inserted the row of the same key.
C13_Witness ==
    /\ calls.impl = "orm"
    /\ \E c \in Callers :
         /\ calls.run[c] # <<>>
         /\ RowsOf(calls.run[c][1]) # {}
         /\ calls.trues[calls.run[c][1]] = 1

\* C14: a SolvedProblem row is immutable: no step (a later call for the
\* same problem with another date or rating, a summary, a target change, a
\* new day) changes or removes a row that is in the table.
C14_RowImmutable ==
    [][\A r \in solved : r \in solved']_vars

\* A call for a recorded problem, made on a later day with another rating,
\* has returned, and a summary and a target change have run.
C14_Witness ==
    \E k \in DedupKeys :
        /\ calls.dup[k]
        /\ \E r \in RowsOf(k) : r.first_solve_date < today
        /\ targets # <<>>
        /\ report # <<>>

\* C16: no error inside an ingestion tick leaves check_codeforces_submissions
\* or check_leetcode_submissions: after a tick that ended on a failed request,
\* a failed store operation or a failed delivery, the process is still running,
\* the job is idle, and its next tick can start.
TickFailures == {"fetch_failed", "aborted"}

C16_TickErrorsContained ==
    /\ cfOutcome \in TickFailures =>
           phase = "running" /\ cfPc = "idle" /\ ENABLED CfFetch
    /\ lcOutcome \in TickFailures =>
           phase = "running" /\ lcPc = "idle" /\ ENABLED LcFetch

\* A Codeforces tick ended on a failed delivery after its store write, and the
\* next tick of the job can start.
C16_Witness ==
    /\ cfOutcome = "aborted"
    /\ \E e \in sendLog : e.platform = "codeforces" /\ ~e.delivered
    /\ ENABLED CfFetch

\* C17: a Codeforces submission whose verdict is not OK never reaches the dedup
\* step and never moves the cursor: in every tick, the record handed to
\* log_problem_solved, the record of every SolveEvent and the record whose id
\* is written to the cursor are accepted submissions of the account.
CfTickRecordAccepted == cfSubs[CfCurrent.id].verdict = "OK"

C17_RejectedNeverProcessed ==
    [][/\ (cfPc = "log" /\ cfPc' # cfPc) => CfTickRecordAccepted
       /\ (cfPc = "send" /\ sendLog' # sendLog) => CfTickRecordAccepted
       /\ (cfEvents' # cfEvents /\ cfEvents' # <<>>) =>
              cfSubs[cfEvents'[Len(cfEvents')]].verdict = "OK"
       /\ (cfPc = "save" /\ kv' # kv) =>
              cfSubs[CursorOf(kv', "codeforces")].verdict = "OK"]_vars

\* A tick has handed an accepted submission to the dedup step and is about to
\* write the cursor, while its window holds a newer-than-cursor submission that
\* was not accepted.
C17_Witness ==
    /\ cfPc = "save"
    /\ \E i \in 1..Len(cfData) : cfData[i].verdict # "OK" /\ cfData[i].id > cfLast

\* C18: once a platform's persisted cursor is at or above a record's
\* sequenceValue, no later tick examines that record: every record a tick
\* selects for its loop is above the cursor the store holds when the tick
\* reads it, also when that read fails.
C18_NothingAtOrBelowCursorExamined ==
    [][/\ (cfPc = "idle" /\ cfPc' = "log") =>
              \A i \in 1..Len(CfSorted(cfData', cfLast')) :
                  CfSorted(cfData', cfLast')[i].id > Cursor("codeforces")
       /\ (lcPc = "idle" /\ lcPc' = "log") =>
              \A i \in 1..Len(LcSorted(lcData', lcLast')) :
                  LcSorted(lcData', lcLast')[i].timestamp > Cursor("leetcode")]_vars

\* The first day of the period of a summary computed on day `day`: the day
\* itself, the Monday of its week, the first day of its month (1 February is
\* day -24, 1 March is day 5).
PeriodStart(period, day) ==
    IF period = "daily" THEN day
    ELSE IF period = "weekly"
    THEN CHOOSE m \in (day - 6)..day : Weekday(m) = 0
    ELSE IF day >= 5 THEN 5 ELSE -24

PeriodRows(period, day) ==
    {r \in solved : /\ r.first_solve_date >= PeriodStart(period, day)
                    /\ r.first_solve_date <= day}

\* C19: for each period (daily: today; weekly: from the Monday of the current
\* week; monthly: from the first day of the current month) the grand total of
\* the summary equals the number of solved_problems rows whose
\* first_solve_date falls in the period.
C19_GrandTotalIsRowCount ==
    report # <<>> =>
        report.summary.grand_total = Cardinality(PeriodRows(report.period, today))

\* C20: in every summary each counted row falls in exactly one bucket of its
\* platform: the LeetCode buckets sum to the LeetCode total, the Codeforces
\* buckets sum to the Codeforces total, and the two totals sum to the grand
\* total.
C20_BucketsSumToTotals ==
    report # <<>> =>
        LET s == report.summary
        IN  /\ s.lc_easy + s.lc_medium + s.lc_hard + s.lc_na = s.lc_total
            /\ s.cf_800_1000 + s.cf_1100_1300 + s.cf_1400_1600 + s.cf_1700_plus
                    + s.cf_na = s.cf_total
            /\ s.lc_total + s.cf_total = s.grand_total
            /\ s.lc_total = SumCounts(StatsGet(report.stats, "leetcode"),
                                      DOMAIN StatsGet(report.stats, "leetcode"))
            /\ s.cf_total = SumCounts(StatsGet(report.stats, "codeforces"),
                                      DOMAIN StatsGet(report.stats, "codeforces"))

\* A monthly summary over a Codeforces row rated below every band and a
\* LeetCode row without a difficulty: both are counted in the Other buckets.
C20_Witness ==
    /\ report # <<>>
    /\ report.period = "monthly"
    /\ "700" \in DOMAIN StatsGet(report.stats, "codeforces")
    /\ "None" \in DOMAIN StatsGet(report.stats, "leetcode")
    /\ report.summary.cf_na = 1
    /\ report.summary.lc_na = 1
    /\ report.summary.grand_total = 2

\* The rating keys of map m that are all digits with a value in lo..hi.
DigitKeysIn(m, lo, hi) ==
    {k \in DOMAIN m : IsDigit(k) /\ IntOfText[k] \in lo..hi}

\* C21: Codeforces bucketing: an all-digit rating is counted in 800-1000,
\* 1100-1300, 1400-1600 or 1700+ exactly when its value lies in that inclusive
\* range; every other rating (not a number, below 800, in a gap between two
\* bands) is counted in Other.
C21_CodeforcesBands ==
    (report # <<>> /\ "stats" \in DOMAIN report /\ "codeforces" \in DOMAIN report.stats) =>
        LET m == report.stats["codeforces"]
            s == report.summary
            top == MaxOf({1700} \cup {IntOfText[k] : k \in DOMAIN IntOfText})
            banded == DigitKeysIn(m, 800, 1000) \cup DigitKeysIn(m, 1100, 1300)
                        \cup DigitKeysIn(m, 1400, 1600) \cup DigitKeysIn(m, 1700, top)
        IN  /\ s.cf_800_1000 = SumCounts(m, DigitKeysIn(m, 800, 1000))
            /\ s.cf_1100_1300 = SumCounts(m, DigitKeysIn(m, 1100, 1300))
            /\ s.cf_1400_1600 = SumCounts(m, DigitKeysIn(m, 1400, 1600))
            /\ s.cf_1700_plus = SumCounts(m, DigitKeysIn(m, 1700, top))
            /\ s.cf_na = SumCounts(m, DOMAIN m \ banded)

\* A summary of a map with a rating at the upper end of a band and a rating in
\* the gap above it: the first is counted in the band, the second in Other.
C21_Witness ==
    /\ report # <<>>
    /\ "stats" \in DOMAIN report
    /\ "codeforces" \in DOMAIN report.stats
    /\ DOMAIN report.stats["codeforces"] = {"1000", "1001"}
    /\ report.summary.cf_800_1000 = report.stats["codeforces"]["1000"]
    /\ report.summary.cf_na = report.stats["codeforces"]["1001"]
    /\ report.stats["codeforces"]["1000"] # report.stats["codeforces"]["1001"]

\* The count of key k in map m, 0 when m has no such key.
CountOf(m, k) == IF k \in DOMAIN m THEN m[k] ELSE 0

\* C22: LeetCode bucketing: a rating equal to exactly 'Easy', 'Medium' or
\* 'Hard' is counted in that bucket; a null rating or any other text (the
\* 'None' stored when no difficulty was obtained among them) is counted in
\* Other.
C22_LeetCodeBuckets ==
    (report # <<>> /\ "stats" \in DOMAIN report /\ "leetcode" \in DOMAIN report.stats) =>
        LET m == report.stats["leetcode"]
            s == report.summary
        IN  /\ s.lc_easy = CountOf(m, "Easy")
            /\ s.lc_medium = CountOf(m, "Medium")
            /\ s.lc_hard = CountOf(m, "Hard")
            /\ s.lc_na = SumCounts(m, DOMAIN m \ {"Easy", "Medium", "Hard"})

\* A summary of a map with a null rating and a label in another spelling:
\* both are counted in Other.
C22_Witness ==
    /\ report # <<>>
    /\ "stats" \in DOMAIN report
    /\ "leetcode" \in DOMAIN report.stats
    /\ DOMAIN report.stats["leetcode"] = {NULL, "easy"}
    /\ report.summary.lc_easy = 0
    /\ report.summary.lc_na = 3

\* 100 * current / target rounded to the nearest integer, a value exactly
\* halfway going to the even one.
RoundedPercent(current, target) ==
    LET n == 100 * current
        q == n \div target
        r == n % target
    IN  IF 2 * r < target THEN q
        ELSE IF 2 * r > target THEN q + 1
        ELSE IF q % 2 = 0 THEN q ELSE q + 1

\* The progress value a call with (current, target) leaves in the report.
ProgressIs(current, target, value) ==
    (report # <<>> /\ "bar" \in DOMAIN report
        /\ report.current = current /\ report.target = target) =>
            IF target = 0 THEN report.bar = [text |-> "-"]
            ELSE "percentage" \in DOMAIN report.bar /\ report.bar.percentage = value

\* C23: the progress value of a bucket is a function of (current, target)
\* alone: the "no target" marker when target = 0, otherwise
\* min(100, round(100 * current / target)); (0, 0) gives the marker, (1, 2)
\* gives 50, (5, 2) gives 100 and (1, 4) gives 25.
C23_ProgressValue ==
    /\ \A current \in 0..MaxCurrent, target \in 0..MaxTarget :
           ProgressIs(current, target,
                      IF target = 0 THEN 0
                      ELSE Min(100, RoundedPercent(current, target)))
    /\ ProgressIs(0, 0, 0)
    /\ ProgressIs(1, 2, 50)
    /\ ProgressIs(5, 2, 100)
    /\ ProgressIs(1, 4, 25)

\* What get_leetcode_target is to return for a type whose most recent
\* successful set_leetcode_target was `last` (<<>> when there was none).
ExpectedTarget(last) == IF last = <<>> THEN NoTarget ELSE last[1]

\* C24: for every period, get_leetcode_target returns all-zero thresholds when
\* no target was ever set, and after any sequence of successful
\* set_leetcode_target calls exactly the three values of the most recent one
\* for that period.
C24_GetReturnsLastSet ==
    [][report' # report =>
          report'.result = ExpectedTarget(calls.last[report'.target_type])]_vars

\* The words of args that are integers, as numbers.
ArgValues(args) == {IntOfArg[args[i]] : i \in {j \in 1..Len(args) : args[j] \in {"2", "-1"}}}

\* C25: a set-target command with a negative value, an argument that is not
\* an integer or an argument count other than three is rejected with a reply
\* and leaves the target store unchanged; set_leetcode_target with a period
\* outside daily, weekly, monthly raises without touching the store.
C25_BadCommandRejected ==
    [][/\ (report' # report /\ "command" \in DOMAIN report'
            /\ (\/ Len(report'.args) # 3
                \/ \E i \in 1..Len(report'.args) : report'.args[i] = "1.5"
                \/ \E v \in ArgValues(report'.args) : v < 0)) =>
              /\ targets' = targets
              /\ report'.reply \in {"usage", "not_integers", "not_non_negative"}
       /\ (report' # report /\ "call" \in DOMAIN report'
            /\ report'.call \notin {"daily", "weekly", "monthly"}) =>
              /\ targets' = targets
              /\ report'.result = "ValueError"]_vars

\* The weekly target is set, and a later /wset 2 2 -1 was answered with the
\* non-negative text.
C25_Witness ==
    /\ "weekly" \in DOMAIN targets
    /\ report # <<>>
    /\ "command" \in DOMAIN report
    /\ report.command = "weekly"
    /\ report.args = <<"2", "2", "-1">>
    /\ report.reply = "not_non_negative"

C27_NothingSolvedIffNoRows ==
    (report # <<>> /\ report.period = "daily") =>
        (report.message = "nothing_solved"
            <=> {r \in solved : r.first_solve_date = today} = {})

\* The state of one platform in the stores and the notifier: whether its
\* cursor key is set and to what, its rows, its notification attempts.
PlatformState(store, rows, log, platform) ==
    <<CursorKey(platform) \in DOMAIN store, CursorOf(store, platform),
      PlatformRows(rows, platform), PlatformAttempts(log, platform)>>

\* C28: ingestion for one platform never touches the other platform's state:
\* under any interleaving of the two jobs, a step of a Codeforces tick leaves
\* the LeetCode cursor key, the leetcode rows and the LeetCode job as they
\* were, and a step of a LeetCode tick leaves the Codeforces cursor key, the
\* codeforces rows and the Codeforces job as they were; the store holds no
\* key but the two cursor keys.
C28_PlatformsDisjoint ==
    [][/\ cfLocal' # cfLocal =>
              /\ PlatformState(kv', solved', sendLog', "leetcode")
                     = PlatformState(kv, solved, sendLog, "leetcode")
              /\ lcLocal' = lcLocal
       /\ lcLocal' # lcLocal =>
              /\ PlatformState(kv', solved', sendLog', "codeforces")
                     = PlatformState(kv, solved, sendLog, "codeforces")
              /\ cfLocal' = cfLocal
       /\ PlatformState(kv', solved', sendLog', "codeforces")
              # PlatformState(kv, solved, sendLog, "codeforces") => cfLocal' # cfLocal
       /\ PlatformState(kv', solved', sendLog', "leetcode")
              # PlatformState(kv, solved, sendLog, "leetcode") => lcLocal' # lcLocal
       /\ DOMAIN kv' \subseteq {"last_cf_submission_id", "last_lc_timestamp"}]_vars

\* A LeetCode tick is about to write its cursor while a Codeforces tick is in
\* its loop, and each platform has a row of its own.
C28_Witness ==
    /\ lcPc = "save"
    /\ cfPc \in {"send", "save"}
    /\ PlatformRows(solved, "codeforces") # {}
    /\ PlatformRows(solved, "leetcode") # {}

\* The rows of (platform, problem_id).
ProblemRows(rows, platform, problem_id) ==
    {r \in rows : r.platform = platform /\ r.problem_id = problem_id}

\* C29: a notification is issued only after the row of its (platform,
\* problem_id) has been inserted by the same tick: in every reachable state
\* each problem that has a notification attempt has a row in solved_problems,
\* a tick standing before its send has the row of the record it is about to
\* announce, and the step that brings a tick before its send is the one that
\* inserted that row.
C29_RowBeforeEvent ==
    /\ [](/\ \A e \in sendLog : HasRow(solved, e.platform, e.problem_id)
          /\ cfPc = "send" =>
                HasRow(solved, "codeforces", CfProblemId(CfCurrent.problem))
          /\ lcPc = "send" => HasRow(solved, "leetcode", LcCurrent.titleSlug))
    /\ [][/\ (cfPc' = "send" /\ cfPc # "send") =>
                /\ ProblemRows(solved, "codeforces", CfProblemId(CfCurrent.problem)) = {}
                /\ ProblemRows(solved', "codeforces", CfProblemId(CfCurrent.problem)) # {}
          /\ (lcPc' = "send" /\ lcPc # "send") =>
                /\ ProblemRows(solved, "leetcode", LcCurrent.titleSlug) = {}
                /\ ProblemRows(solved', "leetcode", LcCurrent.titleSlug) # {}
          /\ sendLog' # sendLog => (cfPc = "send" \/ lcPc = "send")]_vars

\* A notification was attempted and not delivered, the tick is over, and the
\* row of the problem is in the table.
C29_Witness ==
    /\ cfPc = "idle" /\ lcPc = "idle"
    /\ \E e \in sendLog :
         /\ ~e.delivered
         /\ ProblemRows(solved, e.platform, e.problem_id) # {}

\* A sequence of records is in the order of key.
InOrder(records, Key(_)) ==
    \A i, j \in 1..Len(records) : i < j => Key(records[i]) <= Key(records[j])

CfCreationTime(sub) == sub.creationTimeSeconds

LcTimestamp(sub) == sub.timestamp

\* A tick in its loop stands at one record of its sorted list.
TickAtARecord ==
    /\ cfPc # "idle" =>
          /\ cfI \in 1..Len(CfSorted(cfData, cfLast))
          /\ InOrder(CfSorted(cfData, cfLast), CfCreationTime)
    /\ lcPc # "idle" =>
          /\ lcI \in 1..Len(LcSorted(lcData, lcLast))
          /\ InOrder(LcSorted(lcData, lcLast), LcTimestamp)

\* One step seen from the Codeforces loop: the loop starts at the first
\* record, keeps its list, moves on by one record only after the cursor write
\* of the record it stands at, makes its insert, its notification and its
\* cursor write for that record only, and is over once a step raised.
CfTickInOrder ==
    /\ (cfPc = "idle" /\ cfPc' # "idle") => (cfPc' = "log" /\ cfI' = 1)
    /\ (cfPc # "idle" /\ cfPc' # "idle") =>
          /\ cfData' = cfData /\ cfLast' = cfLast
          /\ \/ cfI' = cfI /\ <<cfPc, cfPc'>> \in {<<"log", "log">>, <<"log", "send">>,
                     <<"log", "save">>, <<"send", "send">>, <<"send", "save">>,
                     <<"save", "save">>}
             \/ cfI' = cfI + 1 /\ cfPc = "save" /\ cfPc' = "log"
    /\ PlatformRows(solved', "codeforces") # PlatformRows(solved, "codeforces") =>
          /\ cfPc = "log"
          /\ \A r \in solved' \ solved :
                r.platform = "codeforces" => r.problem_id = CfProblemId(CfCurrent.problem)
    /\ PlatformAttempts(sendLog', "codeforces") # PlatformAttempts(sendLog, "codeforces") =>
          /\ cfPc = "send"
          /\ \A e \in sendLog' \ sendLog : e.problem_id = CfProblemId(CfCurrent.problem)
          /\ (\E e \in sendLog' \ sendLog : ~e.delivered) => cfPc' = "idle"
    /\ (phase = "running" /\ CursorOf(kv', "codeforces") # CursorOf(kv, "codeforces")) =>
          /\ cfPc = "save"
          /\ CursorOf(kv', "codeforces") = CfCurrent.id
    /\ (cfOutcome' = "aborted" /\ cfLocal' # cfLocal) => cfPc' = "idle"

\* The same for the LeetCode loop.
LcTickInOrder ==
    /\ (lcPc = "idle" /\ lcPc' # "idle") => (lcPc' = "log" /\ lcI' = 1)
    /\ (lcPc # "idle" /\ lcPc' # "idle") =>
          /\ lcData' = lcData /\ lcLast' = lcLast
          /\ \/ lcI' = lcI /\ <<lcPc, lcPc'>> \in {<<"log", "log">>, <<"log", "send">>,
                     <<"log", "save">>, <<"send", "send">>, <<"send", "save">>,
                     <<"save", "save">>}
             \/ lcI' = lcI + 1 /\ lcPc = "save" /\ lcPc' = "log"
    /\ PlatformRows(solved', "leetcode") # PlatformRows(solved, "leetcode") =>
          /\ lcPc = "log"
          /\ \A r \in solved' \ solved :
                r.platform = "leetcode" => r.problem_id = LcCurrent.titleSlug
    /\ PlatformAttempts(sendLog', "leetcode") # PlatformAttempts(sendLog, "leetcode") =>
          /\ lcPc = "send"
          /\ \A e \in sendLog' \ sendLog : e.problem_id = LcCurrent.titleSlug
          /\ (\E e \in sendLog' \ sendLog : ~e.delivered) => lcPc' = "idle"
    /\ (phase = "running" /\ CursorOf(kv', "leetcode") # CursorOf(kv, "leetcode")) =>
          /\ lcPc = "save"
          /\ CursorOf(kv', "leetcode") = LcCurrent.timestamp
    /\ (lcOutcome' = "aborted" /\ lcLocal' # lcLocal) => lcPc' = "idle"

\* C30: within a tick the records are processed one after another in sorted
\* order and processing stops at the first record that raises: the list is in
\* the order of its sort key, the loop starts at its first record and moves to
\* the next one only after the cursor write of the record it stands at, every
\* insert, notification and cursor write of the tick is for that record, and
\* after a raise the tick is over, so no later record gets an insert, a
\* notification or a cursor write in that tick.
C30_PrefixThenStop ==
    []TickAtARecord /\ [][CfTickInOrder /\ LcTickInOrder]_vars

\* A tick over two records was cut short at its first record by a
\* notification that was not delivered: the cursor is where the tick found it
\* and the second record got nothing.
C30_Witness ==
    /\ cfPc = "idle" /\ cfOutcome = "aborted"
    /\ Cardinality(PlatformRows(solved, "codeforces")) = 1
    /\ \E e \in sendLog : ~e.delivered
    /\ Cursor("codeforces") = 0
    /\ Len(CfNewSuccessful(CfUserStatus(CF_COUNT), 0)) = 2
    /\ \A i, j \in 1..Len(cfSubs) :
          i # j => cfSubs[i].problem # cfSubs[j].problem

\* A Codeforces tick has read the cursor as it is stored and stands at the
\* first record of its list, and the record with this id is in the list.
CfAwaits(id) ==
    /\ cfPc = "log" /\ cfI = 1
    /\ cfLast = Cursor("codeforces")
    /\ \E x \in Range(CfSorted(cfData, cfLast)) : x.id = id

LcAwaits(id) ==
    /\ lcPc = "log" /\ lcI = 1
    /\ lcLast = Cursor("leetcode")
    /\ \E x \in Range(LcSorted(lcData, lcLast)) : x.id = id

\* The insert call was made for the record, or the record is no longer in
\* the fetch window.
CfExaminedOrGone(id) ==
    \/ id \in examined["codeforces"]
    \/ \A x \in Range(CfUserStatus(CF_COUNT)) : x.id # id

LcExaminedOrGone(id) ==
    \/ id \in examined["leetcode"]
    \/ \A x \in Range(LcRecentAcSubmissionList(LC_LIMIT)) : x.id # id

\* The cursor stands at the largest sequence value of the accepted records of
\* the window.
CfCursorAtMax ==
    \A x \in Range(CfUserStatus(CF_COUNT)) :
        x.verdict = "OK" => Cursor("codeforces") >= x.id

LcCursorAtMax ==
    \A x \in Range(LcRecentAcSubmissionList(LC_LIMIT)) :
        Cursor("leetcode") >= x.timestamp

\* C31: a record blocks progress at most for a while: with collaborators that
\* do not fail forever, every record in the list of a tick (the tick may be
\* aborted in the middle of its loop) is examined by that or a later tick
\* while it is in the fetch window, and the cursor reaches the largest
\* sequence value of the window.
C31_AbortedTickCaughtUp ==
    /\ \A id \in 1..MaxSubs :
          CfAwaits(id) ~> (CfExaminedOrGone(id) /\ CfCursorAtMax)
    /\ \A id \in 1..MaxSubs :
          LcAwaits(id) ~> (LcExaminedOrGone(id) /\ LcCursorAtMax)

\* C32: ingestion is idempotent on an unchanged window: a tick that starts
\* right after a tick that ran to completion, on the same window and with
\* nothing failing, finds no record to examine and completes at once, leaving
\* the cursor, the rows, the notification attempts and the set of examined
\* records as they were.
C32_SecondTickChangesNothing ==
    [][/\ (cfPc = "idle" /\ cfOutcome = "completed" /\ CfFetchOk) =>
              /\ cfPc' = "idle" /\ cfOutcome' = "completed"
              /\ kv' = kv /\ solved' = solved /\ sendLog' = sendLog
              /\ examined' = examined
       /\ (lcPc = "idle" /\ lcOutcome = "completed" /\ LcFetchOk) =>
              /\ lcPc' = "idle" /\ lcOutcome' = "completed"
              /\ kv' = kv /\ solved' = solved /\ sendLog' = sendLog
              /\ examined' = examined]_vars

\* The submission is still being tested while a submission with a higher id
\* has already been examined.
CfOvertaken(id) ==
    /\ id <= Len(cfSubs)
    /\ cfSubs[id].verdict = "TESTING"
    /\ \E j \in examined["codeforces"] : j > id

\* C33: a Codeforces submission that becomes accepted only after a submission
\* with a higher id was processed is still examined by a later tick while it
\* is in the fetch window.
C33_LateVerdictExamined ==
    \A id \in 1..MaxSubs :
        [](CfOvertaken(id) =>
              []((id <= Len(cfSubs) /\ CfAccepted(id)) => <>CfExaminedOrGone(id)))

\* The scheduled daily reports that counted the row.
ReportsCounting(r) == {i \in DOMAIN report : r \in report[i].counted}

\* C34: every row is counted in exactly one scheduled daily report, the one
\* of its first_solve_date: once the day of a row is over, one report has
\* counted it and that report is the one of the row's date.
C34_RowInOneDailyReport ==
    \A r \in solved :
        r.first_solve_date < today =>
            /\ Cardinality(ReportsCounting(r)) = 1
            /\ \A i \in ReportsCounting(r) : report[i].day = r.first_solve_date

\* The labels the summaries know.
LcLabels == {"Easy", "Medium", "Hard"}

\* The insert of the current LeetCode record after a difficulty lookup that
\* gave no value: the row is stored with the text of None and the loop goes
\* on to the notification.
LcLogWithoutDifficulty ==
    /\ LcLog
    /\ lcPc' = "send"
    /\ \E r \in solved' \ solved :
          /\ r.platform = "leetcode" /\ r.problem_id = LcCurrent.titleSlug
          /\ r.rating = "None"

\* The row of the record the LeetCode loop stands at has no label.
LcCurrentUnlabelled ==
    /\ lcPc \in {"send", "save"}
    /\ \E r \in solved :
          /\ r.platform = "leetcode" /\ r.problem_id = LcCurrent.titleSlug
          /\ r.rating \notin LcLabels

\* C35: a difficulty lookup that yields no value does not abort the tick:
\* for a new record the insert with the rating "None" is possible and leads
\* on to the notification, from there the notification can be delivered
\* and the cursor written with the record's timestamp, every row inserted
\* without a label brings the loop to the notification, and no later step
\* changes or removes a row, so the rating is never corrected.
C35_NoDifficultyStillIngested ==
    /\ [](/\ (lcPc = "log" /\ ~HasRow(solved, "leetcode", LcCurrent.titleSlug))
               => ENABLED LcLogWithoutDifficulty
          /\ (lcPc = "send" /\ LcCurrentUnlabelled) => ENABLED LcSendOk
          /\ (lcPc = "save" /\ LcCurrentUnlabelled) => ENABLED LcSaveOk)
    /\ [][/\ \A r \in solved' \ solved :
                (r.platform = "leetcode" /\ r.rating \notin LcLabels) =>
                    (lcPc = "log" /\ lcPc' = "send")
          /\ \A r \in solved : r \in solved']_vars

\* A tick has completed for a record whose lookup gave no value: the row says
\* "None", the notification was delivered and the cursor is the record's
\* timestamp.
C35_Witness ==
    /\ lcPc = "idle" /\ lcOutcome = "completed"
    /\ Len(lcSubs) = 1
    /\ \E r \in solved :
          /\ r.platform = "leetcode" /\ r.problem_id = lcSubs[1].titleSlug
          /\ r.rating = "None"
    /\ \E e \in sendLog : e.delivered /\ e.problem_id = lcSubs[1].titleSlug
    /\ Cursor("leetcode") = lcSubs[1].timestamp

\* The target of a period as stored: the row of the type, if there is one.
StoredTarget(rows, target_type) ==
    IF target_type \in DOMAIN rows THEN <<rows[target_type]>> ELSE <<>>

\* C36: setting the target of one period leaves the targets of the other two
\* periods, the cursors and the solved problems unchanged.
C36_SetTargetTouchesOnePeriod ==
    [][/\ \E t \in TargetTypes :
             \A u \in TargetTypes \ {t} :
                StoredTarget(targets', u) = StoredTarget(targets, u)
       /\ kv' = kv
       /\ solved' = solved]_vars

\* The three periods carry targets that were set one after another, next to
\* cursors and rows that are still there.
C36_Witness ==
    /\ DOMAIN targets = TargetTypes
    /\ targets["daily"].easy = 1 /\ targets["weekly"].easy = 0
    /\ targets["monthly"].hard = 1
    /\ Cursor("codeforces") = 1 /\ Cursor("leetcode") = 1
    /\ Cardinality(solved) = 2

\* C37: a run with TEST_MODE set never mutates the cursors or the solved
\* problems, and once its post_initialization has run the application is
\* stopped: no checker tick starts.
C37_TestModeMutatesNothing ==
    [][calls.test_mode =>
          /\ kv' = kv
          /\ solved' = solved
          /\ phase = "post_init" => phase' \in {"post_init", "stopped"}
          /\ cfPc' = "idle" /\ lcPc' = "idle"]_vars

====
